---- MODULE Spec2Model ----
(***************************************************************************)
(* Model of the YouTube content pipeline: the FastAPI boundary (app.py),   *)
(* the AutonomousPipeline orchestrator (orchestrator.py) and the           *)
(* collaborators it drives.  One step of a run is one collaborator call    *)
(* returning (or raising) together with the statements that follow it up   *)
(* to the next collaborator call; the request handlers are single steps.   *)
(***************************************************************************)
EXTENDS Integers, Sequences, FiniteSets, TLC

\* ------------------------------------------------------------------ bounds
\* total number of runs launched in one behaviour in which requests may
\* arrive while runs are in progress
MaxRuns == 2
\* total number of runs launched in one behaviour in which every request
\* waits for the previous run to end
MaxSeqRuns == 3
\* number of worker threads / callers that can be inside a run at once
MaxActive == 2
\* largest recommendation list the oracle returns; indexes are 0..MaxRecs-1
MaxRecs == 2

\* number of items of a channel handed to the analyzer
MaxItems == 3

\* number of comparison channels, and of items of a comparison channel
MaxChannels == 2
MaxCompItems == 2

MaxStamped == 3

MaxTitled == 4

MaxAdvised == 3

MaxAppRuns == 3

\* ------------------------------------------------------------------ values
\* Python None for object references (analysis results, recommender objects,
\* artifact paths, timestamps); real objects are numbered from 1.
None == 0
\* Python None for selected_index, whose real values start at 0.
NoIndex == -1

Slots == 1..MaxActive
\* runs, and the objects they create, are numbered in launch order
MaxId == IF MaxRuns > MaxSeqRuns
         THEN IF MaxRuns > MaxAppRuns THEN MaxRuns ELSE MaxAppRuns
         ELSE IF MaxSeqRuns > MaxAppRuns THEN MaxSeqRuns ELSE MaxAppRuns
Ids == 1..MaxId
Indexes == 0..(MaxRecs - 1)

\* a details string of the status record: its fixed text and, for failures,
\* the str(e) that the f-string appends
D(text) == [text |-> text, msg |-> ""]
NoDetails == D("")

\* recommendation lists: None, the empty list [], or the list object that
\* recommender object obj holds (len entries)
NoneRecs == [kind |-> "None", obj |-> 0, len |-> 0]
EmptyList == [kind |-> "list", obj |-> 0, len |-> 0]
RecList(obj, len) == [kind |-> "list", obj |-> obj, len |-> len]

VARIABLES
    pipeline_state,   \* app.py: the global status record the UI polls
    heap,             \* LLMRecommender objects, by the run that created them
    run,              \* per slot: position, arguments, locals and results of a run
    launched,         \* number of runs launched so far
    persisted,        \* per recommender object: times its list was written to disk
    analyzer          \* a MetricsAnalyzer (or a DataFetcher frame) exercised on its own

vars == <<pipeline_state, heap, run, launched, persisted, analyzer>>

\* ------------------------------------------------------------- app.py state
InitialPipelineState ==
    [status |-> "Idle",
     last_run |-> None,
     details |-> D("Ready to launch agents."),
     stats |-> "empty",
     top_videos |-> None,
     recent_engagement |-> None,
     recommendations |-> EmptyList,
     analysis_results |-> None,
     target_index |-> NoIndex,
     video_path |-> None,
     video_url |-> None,
     recommendation_object |-> None,
     recommendations_saved |-> "absent"]

\* LLMRecommender.__init__
NewRecommender(analysis) == [analysis |-> analysis, recommendation |-> NoneRecs]
Unallocated == [analysis |-> None, recommendation |-> NoneRecs]

\* AutonomousPipeline.__init__: the frame of one run, with what is observed of
\* it (the collaborators called, the exception raised, the phase and details
\* it ended with, the record as it was when the run was requested and when
\* it began)
IdleRun ==
    [pc |-> "idle", id |-> 0, via |-> "none",
     selected_index |-> NoIndex, generate_video |-> TRUE,
     channel_videos |-> "unset", channel_info |-> "unset", analysis_results |-> None,
     llm_recommender |-> None, recommendations |-> NoneRecs, script |-> "None",
     results_script |-> "unset", results_video_path |-> None,
     returned |-> "running",
     calls |-> <<>>, raised |-> "", end_phase |-> "", end_details |-> NoDetails,
     before |-> InitialPipelineState,
     cached_at_begin |-> None, saved_at_begin |-> "absent",
     path_at_begin |-> None, url_at_begin |-> None,
     script_for |-> <<None, NoIndex>>, cached_at_script |-> None]

NewRun(id, via, index, gen) ==
    [IdleRun EXCEPT !.pc = IF via = "app" THEN "queued" ELSE "begin",
                    !.before = pipeline_state,
                    !.id = id, !.via = via,
                    !.selected_index = index, !.generate_video = gen]

\* the pipeline treats the analyzer as a collaborator: no analyzer object is
\* followed through the runs
NoAnalyzer == [fn |-> "none"]

Init ==
    /\ pipeline_state = InitialPipelineState
    /\ heap = [k \in Ids |-> Unallocated]
    /\ run = [r \in Slots |-> IdleRun]
    /\ launched = 0
    /\ persisted = [k \in Ids |-> 0]
    /\ analyzer = NoAnalyzer

\* ------------------------------------------------------------------ helpers
Free(r) == run[r].pc \in {"idle", "done"}
\* the slot a new run takes: the lowest free one
NextSlot == CHOOSE r \in Slots : Free(r) /\ \A q \in Slots : Free(q) => r <= q
CanLaunch(limit) == launched < limit /\ \E r \in Slots : Free(r)
\* no run is queued or in progress
Quiet == \A r \in Slots : Free(r)

\* AutonomousPipeline._update_ui: an argument that is falsy is not written
UpdateUI(st, status, details) ==
    [st EXCEPT !.status = IF status # "" THEN status ELSE @,
               !.details = IF details.text # "" THEN details ELSE @]

\* dict.get truthiness of recommendations_saved
Saved(st) == st.recommendations_saved = "True"

\* truthiness of a script dict: {} is falsy
Truthy(script) == script = "full"

\* ---------------------------------------------------- orchestrator.py: run
\* the configuration a step of a run works on: the status record, the
\* recommender objects and the run's own frame
Cfg(st, hp, rn) == [st |-> st, hp |-> hp, rn |-> rn]

\* a collaborator is invoked
Called(rn, stage) == [rn EXCEPT !.calls = Append(@, stage)]

\* run returns: to run_pipeline_worker for a run the app launched, to the
\* caller otherwise
Return(c, value) ==
    Cfg(c.st, c.hp,
        [c.rn EXCEPT !.pc = IF c.rn.via = "app" THEN "returned" ELSE "done",
                     !.returned = value,
                     !.end_phase = c.st.status,
                     !.end_details = c.st.details])

\* the except clause with the exception's message left out of the details
ExceptHandler_DropsMessage(c, e) ==
    Return(Cfg(UpdateUI(c.st, "Error", D("Pipeline failed: ")), c.hp, c.rn), "None")

\* except Exception as e: _update_ui("Error", f"Pipeline failed: {str(e)}")
ExceptHandler(c, e) ==
    Return(Cfg(UpdateUI(c.st, "Error", [text |-> "Pipeline failed: ", msg |-> e]),
               c.hp, c.rn),
           "None")

\* a collaborator raises: the exception reaches the except clause of run
Raise(c, stage) ==
    ExceptHandler(Cfg(c.st, c.hp, [c.rn EXCEPT !.raised = stage]), stage)

\* can_skip_analysis with the test of selected_index inverted
CanSkipAnalysis_Inverted(st, selected_index) ==
    st.analysis_results # None /\ selected_index = NoIndex

\* can_skip_analysis
CanSkipAnalysis(st, selected_index) ==
    st.analysis_results # None /\ selected_index # NoIndex

\* _print_summary: indexes the run's recommendation list when it is truthy
PrintSummaryRaises(rn) ==
    /\ rn.recommendations.kind = "list"
    /\ rn.recommendations.len > 0
    /\ rn.selected_index >= rn.recommendations.len

\* an end of a run with a selection that returns the results without
\* writing the phase
Complete_PhaseNotWritten(c) == Return(c, "results")

\* an end of a run with a selection that also writes last_run
Complete_WritesLastRun(c) ==
    LET st1 == [UpdateUI(c.st, "Completed", D("Pipeline finished at"))
                   EXCEPT !.last_run = c.rn.id]
        c1 == Cfg(st1, c.hp, c.rn)
    IN IF PrintSummaryRaises(c.rn)
       THEN ExceptHandler(c1, "IndexError")
       ELSE Return(c1, "results")

\* the end of a run with a selection: phase Completed, summary, return results
Complete(c) ==
    LET st1 == UpdateUI(c.st, "Completed", D("Pipeline finished at"))
        c1 == Cfg(st1, c.hp, c.rn)
    IN IF PrintSummaryRaises(c.rn)
       THEN ExceptHandler(c1, "IndexError")
       ELSE Return(c1, "results")

\* the end of run without the else branch: every run is marked Completed
Finish_AlwaysCompleted(c) == Complete(c)

\* the end of run returning the results after the Waiting branch too
Finish_ReturnsResults(c) ==
    IF c.rn.selected_index # NoIndex
    THEN Complete(c)
    ELSE LET st1 == UpdateUI(c.st, "Waiting",
                             D("Select a recommendation to generate video."))
         IN Return(Cfg([st1 EXCEPT !.last_run = c.rn.id], c.hp, c.rn), "results")

\* the end of run (from "if selected_index is not None"): Completed and the
\* results for a call with a selection; otherwise Waiting, last_run and the
\* implicit return None
Finish(c) ==
    IF c.rn.selected_index # NoIndex
    THEN Complete(c)
    ELSE LET st1 == UpdateUI(c.st, "Waiting",
                             D("Select a recommendation to generate video."))
         IN Return(Cfg([st1 EXCEPT !.last_run = c.rn.id], c.hp, c.rn), "None")

\* the render condition without the generate_video flag
WillRender_IgnoresFlag(generate_video, script) == Truthy(script)

\* generate_video and self.results.get("script")
WillRender(generate_video, script) == generate_video /\ Truthy(script)

\* Step 6 up to the call of the renderer, or the skip and the end of run
Step6(c) ==
    IF WillRender(c.rn.generate_video, c.rn.results_script)
    THEN Cfg(UpdateUI(c.st, "GeneratingVideo",
                      D("Step 6/6: Rendering video for Option")),
             c.hp, [c.rn EXCEPT !.pc = "render"])
    ELSE Finish(Cfg(UpdateUI(c.st, "", D("Skipping video generation...")),
                    c.hp, [c.rn EXCEPT !.results_video_path = None]))

\* Step 5 up to the call of the formatter; without a script there is
\* nothing to format
Step5(c) ==
    IF c.rn.script # "None"
    THEN Cfg(UpdateUI(c.st, "Running",
                      D("Step 5/6: Formatting script for production...")),
             c.hp, [c.rn EXCEPT !.pc = "format"])
    ELSE Step6(c)

\* after the recommendation is saved (or found saved): stop here without a
\* selection, else go on to the script
AfterSave(c) ==
    IF c.rn.selected_index = NoIndex
    THEN Step5(Cfg(UpdateUI(c.st, "Waiting",
                       D("Analysis complete. Please select a recommended video to generate.")),
                   c.hp,
                   [c.rn EXCEPT !.results_script = "None",
                                !.results_video_path = None]))
    ELSE Cfg(c.st, c.hp, [c.rn EXCEPT !.pc = "generate_script"])

\* the save without its guard
NeedsSave_Always(st) == TRUE

\* "Save recommendation ONLY if it was freshly generated"
NeedsSave(st) == ~Saved(st)

AfterRecommendations(c) ==
    IF NeedsSave(c.st)
    THEN Cfg(c.st, c.hp, [c.rn EXCEPT !.pc = "save_recommendation"])
    ELSE AfterSave(c)

\* is_fast_track never set: recommendations are regenerated in every run
IsFastTrack_Never(selected_index) == FALSE

\* is_fast_track
IsFastTrack(selected_index) == selected_index # NoIndex

\* Step 4, entered with the analysis (fresh or cached) in the run's frame
Step4(c) ==
    LET st1 == UpdateUI(c.st, "Running",
                        D("Step 4/6: LLM Agents generating strategy..."))
    IN IF ~IsFastTrack(c.rn.selected_index)
       THEN Cfg([st1 EXCEPT !.recommendation_object = c.rn.id],
                [c.hp EXCEPT ![c.rn.id] = NewRecommender(c.rn.analysis_results)],
                [c.rn EXCEPT !.llm_recommender = c.rn.id,
                             !.pc = "generate_recommendation"])
       ELSE IF st1.recommendation_object = None
            THEN ExceptHandler(Cfg(st1, c.hp, c.rn), "KeyError")
            ELSE AfterRecommendations(
                     Cfg(st1, c.hp,
                         [c.rn EXCEPT !.llm_recommender = st1.recommendation_object,
                                      !.recommendations = st1.recommendations]))

\* the head of run: the dynamic workflow check
BeginStep(c) ==
    LET rn1 == [c.rn EXCEPT !.cached_at_begin = c.st.analysis_results,
                            !.saved_at_begin = c.st.recommendations_saved,
                            !.path_at_begin = c.st.video_path,
                            !.url_at_begin = c.st.video_url]
    IN IF CanSkipAnalysis(c.st, c.rn.selected_index)
       THEN Step4(Cfg(UpdateUI(c.st, "Running",
                               D("Fast-tracking: Using cached analysis data...")),
                      c.hp,
                      [rn1 EXCEPT !.analysis_results = c.st.analysis_results]))
       ELSE Cfg(UpdateUI(c.st, "Running",
                         D("Step 1/6: Fetching channel statistics...")),
                c.hp, [rn1 EXCEPT !.pc = "fetch_data"])

\* Step 1: fetch_channel_data returns rows, returns nothing, or raises
FetchChannelDataStep(c, out) ==
    LET rn1 == Called(c.rn, "fetch_channel_data")
    IN IF out = "raise"
       THEN Raise(Cfg(c.st, c.hp, rn1), "fetch_channel_data")
       ELSE Cfg(c.st, c.hp, [rn1 EXCEPT !.channel_videos = out, !.pc = "fetch_stats"])

\* channel_videos is None or channel_videos.empty
NoVideos(channel_videos) == channel_videos = "nothing"

\* fetch_channel_stats returns a summary, returns None, or raises; then the
\* stats block, the no-videos exit and the announcement of Step 2
FetchChannelStatsStep(c, out) ==
    LET rn1 == [Called(c.rn, "fetch_channel_stats") EXCEPT !.channel_info = out]
        c1 == Cfg(c.st, c.hp, rn1)
    IN IF out = "raise" THEN Raise(c1, "fetch_channel_stats")
       ELSE IF out = "None" THEN ExceptHandler(c1, "AttributeError")
       ELSE LET st1 == [c.st EXCEPT !.stats = "calculating"]
            IN IF NoVideos(rn1.channel_videos)
               THEN Return(Cfg(UpdateUI(st1, "Failed",
                                        D("No videos found for this channel.")),
                               c.hp, rn1),
                           "None")
               ELSE Cfg(UpdateUI(st1, "Running",
                                 D("Step 2/6: Identifying competitor trends...")),
                        c.hp, [rn1 EXCEPT !.pc = "find_competitors"])

\* a Step 2 that goes from find_competitors straight to the analysis
FindCompetitorsStep_SkipsFetch(c, out) ==
    LET rn1 == Called(c.rn, "find_competitors")
    IN IF out = "raise"
       THEN Raise(Cfg(c.st, c.hp, rn1), "find_competitors")
       ELSE Cfg(c.st, c.hp, [rn1 EXCEPT !.pc = "analyze"])

\* Step 2: find_competitors, then fetch_competitor_videos
FindCompetitorsStep(c, out) ==
    LET rn1 == Called(c.rn, "find_competitors")
    IN IF out = "raise"
       THEN Raise(Cfg(c.st, c.hp, rn1), "find_competitors")
       ELSE Cfg(c.st, c.hp, [rn1 EXCEPT !.pc = "fetch_competitor_videos"])

FetchCompetitorVideosStep(c, out) ==
    LET rn1 == Called(c.rn, "fetch_competitor_videos")
    IN IF out = "raise"
       THEN Raise(Cfg(c.st, c.hp, rn1), "fetch_competitor_videos")
       ELSE Cfg(UpdateUI(c.st, "Running",
                         D("Step 3/6: Analyzing engagement metrics...")),
                c.hp, [rn1 EXCEPT !.pc = "analyze"])

\* Step 3: analyze returns the AnalysisResult of this run, which is cached
\* with its summary views; then Step 4
AnalyzeStep(c, out) ==
    LET rn1 == Called(c.rn, "analyze")
    IN IF out = "raise"
       THEN Raise(Cfg(c.st, c.hp, rn1), "analyze")
       ELSE Step4(Cfg([c.st EXCEPT !.analysis_results = rn1.id,
                                   !.recent_engagement = rn1.id,
                                   !.top_videos = rn1.id,
                                   !.stats = "computed"],
                      c.hp,
                      [rn1 EXCEPT !.analysis_results = rn1.id]))

\* generate_recommendation returns a list of len >= 1 entries (len = 0
\* stands for raising); the list is stored in the recommender and the record
GenerateRecommendationStep(c, len) ==
    LET rn1 == Called(c.rn, "generate_recommendation")
        obj == rn1.llm_recommender
        recs == RecList(obj, len)
    IN IF len = 0
       THEN Raise(Cfg(c.st, c.hp, rn1), "generate_recommendation")
       ELSE AfterRecommendations(
                Cfg(UpdateUI([c.st EXCEPT !.recommendations = recs,
                                          !.recommendations_saved = "False"],
                             "Waiting",
                             D("Recommendations ready. Select a video to generate.")),
                    [c.hp EXCEPT ![obj].recommendation = recs],
                    [rn1 EXCEPT !.recommendations = recs]))

\* _save_recommendation: ValueError without a recommendation, else the file
\* is written (or the write raises); then recommendations_saved = True
SaveRecommendationStep(c, out) ==
    LET obj == c.rn.llm_recommender
    IN IF c.hp[obj].recommendation.kind = "None"
       THEN ExceptHandler(c, "ValueError")
       ELSE LET rn1 == Called(c.rn, "_save_recommendation")
            IN IF out = "raise"
               THEN Raise(Cfg(c.st, c.hp, rn1), "_save_recommendation")
               ELSE AfterSave(Cfg([c.st EXCEPT !.recommendations_saved = "True"],
                                  c.hp, rn1))

\* the recommendation file is written by this step
Persists(c, out) ==
    c.hp[c.rn.llm_recommender].recommendation.kind # "None" /\ out # "raise"

\* generate_script taking the first entry when the index is outside the list
GenerateScriptStep_FirstEntry(c, out) ==
    LET obj == c.rn.llm_recommender
        recs == c.hp[obj].recommendation
    IN IF recs.kind = "None" THEN ExceptHandler(c, "ValueError")
       ELSE LET idx == IF c.rn.selected_index >= recs.len THEN 0
                       ELSE c.rn.selected_index
                rn1 == [Called(c.rn, "generate_script")
                           EXCEPT !.script_for = <<obj, idx>>,
                                  !.cached_at_script = c.st.analysis_results]
            IN IF out = "raise"
               THEN Raise(Cfg(c.st, c.hp, rn1), "generate_script")
               ELSE Cfg(c.st, c.hp, [rn1 EXCEPT !.script = out, !.pc = "save_script"])

\* LLMRecommender.generate_script(index): ValueError without a
\* recommendation, IndexError outside the list, else the oracle is asked for
\* a script for recommendation[index]
GenerateScriptStep(c, out) ==
    LET obj == c.rn.llm_recommender
        recs == c.hp[obj].recommendation
    IN IF recs.kind = "None" THEN ExceptHandler(c, "ValueError")
       ELSE IF c.rn.selected_index >= recs.len THEN ExceptHandler(c, "IndexError")
       ELSE LET rn1 == [Called(c.rn, "generate_script")
                           EXCEPT !.script_for = <<obj, c.rn.selected_index>>,
                                  !.cached_at_script = c.st.analysis_results]
            IN IF out = "raise"
               THEN Raise(Cfg(c.st, c.hp, rn1), "generate_script")
               ELSE Cfg(c.st, c.hp, [rn1 EXCEPT !.script = out, !.pc = "save_script"])

\* _save_script, results["script"], then Step 5
SaveScriptStep(c, out) ==
    LET rn1 == Called(c.rn, "_save_script")
    IN IF out = "raise"
       THEN Raise(Cfg(c.st, c.hp, rn1), "_save_script")
       ELSE Step5(Cfg(c.st, c.hp, [rn1 EXCEPT !.results_script = rn1.script]))

\* Step 5: format returns the formatted script; then Step 6
FormatStep(c, out) ==
    LET rn1 == Called(c.rn, "format")
    IN IF out = "raise"
       THEN Raise(Cfg(c.st, c.hp, rn1), "format")
       ELSE Step6(Cfg(c.st, c.hp, rn1))

\* Step 6: VideoGenerator.generate returns the artifact path, which goes to
\* the results and the record
RenderStep(c, out) ==
    LET rn1 == Called(c.rn, "generate")
    IN IF out = "raise"
       THEN Raise(Cfg(c.st, c.hp, rn1), "generate")
       ELSE Finish(Cfg([c.st EXCEPT !.video_path = rn1.id],
                         c.hp, [rn1 EXCEPT !.results_video_path = rn1.id]))

\* -------------------------------------------------------------- app.py
\* start_pipeline rejects a request only in phase Running
StartAccepts(st) == st.status # "Running"

\* generate_selected rejects a missing index and a missing analysis
GenerateSelectedAccepts(st, index) ==
    index # NoIndex /\ st.analysis_results # None

\* ------------------------------------------------------------------ actions
\* a new run takes the lowest free slot; the frames of finished runs are
\* discarded
Launch(id, via, index, gen) ==
    [r \in Slots |-> IF r = NextSlot THEN NewRun(id, via, index, gen)
                     ELSE IF Free(r) THEN IdleRun ELSE run[r]]

Cur(r) == Cfg(pipeline_state, heap, run[r])

Apply(r, c) ==
    /\ pipeline_state' = c.st
    /\ heap' = c.hp
    /\ run' = [run EXCEPT ![r] = c.rn]

\* POST /api/start
StartPipeline(limit) ==
    /\ CanLaunch(limit)
    /\ StartAccepts(pipeline_state)
    /\ pipeline_state' = [pipeline_state EXCEPT !.status = "Running",
                                                !.analysis_results = None,
                                                !.recommendations = EmptyList,
                                                !.video_path = None,
                                                !.video_url = None]
    /\ run' = Launch(launched + 1, "app", NoIndex, TRUE)
    /\ launched' = launched + 1
    /\ UNCHANGED <<heap, persisted, analyzer>>

\* POST /api/generate_selected
GenerateSelected(limit) ==
    /\ CanLaunch(limit)
    /\ \E index \in Indexes :
          /\ GenerateSelectedAccepts(pipeline_state, index)
          /\ pipeline_state' =
                [pipeline_state EXCEPT
                    !.status = "Running",
                    !.details = D("Fast-tracking: Generating video for Option"),
                    !.video_path = None,
                    !.video_url = None]
          /\ run' = Launch(launched + 1, "app", index, TRUE)
    /\ launched' = launched + 1
    /\ UNCHANGED <<heap, persisted, analyzer>>

\* a synchronous call AutonomousPipeline(channel, state_tracker).run(
\* generate_video, selected_index) by a caller other than the app's worker,
\* made while no other run is in progress
CallRun(limit) ==
    /\ CanLaunch(limit)
    /\ Quiet
    /\ \E index \in Indexes \cup {NoIndex}, gen \in BOOLEAN :
          run' = Launch(launched + 1, "direct", index, gen)
    /\ launched' = launched + 1
    /\ UNCHANGED <<pipeline_state, heap, persisted, analyzer>>

\* run_pipeline_worker up to the call of run
WorkerStart(r) ==
    /\ run[r].pc = "queued"
    /\ pipeline_state' = [pipeline_state EXCEPT
                             !.target_index = run[r].selected_index,
                             !.video_path = None,
                             !.video_url = None]
    /\ run' = [run EXCEPT ![r].pc = "begin"]
    /\ UNCHANGED <<heap, launched, persisted, analyzer>>

\* run_pipeline_worker after run has returned: the artifact is exposed when
\* the record holds a path and the file exists
WorkerFinish(r) ==
    /\ run[r].pc = "returned"
    /\ \E exists \in BOOLEAN :
          pipeline_state' =
              [pipeline_state EXCEPT
                  !.video_url = IF pipeline_state.video_path # None /\ exists
                                THEN pipeline_state.video_path ELSE @]
    /\ run' = [run EXCEPT ![r].pc = "done"]
    /\ UNCHANGED <<heap, launched, persisted, analyzer>>

Begin(r) ==
    /\ run[r].pc = "begin"
    /\ Apply(r, BeginStep(Cur(r)))
    /\ UNCHANGED <<launched, persisted, analyzer>>

FetchChannelData(r) ==
    /\ run[r].pc = "fetch_data"
    /\ \E out \in {"rows", "nothing", "raise"} :
          Apply(r, FetchChannelDataStep(Cur(r), out))
    /\ UNCHANGED <<launched, persisted, analyzer>>

FetchChannelStats(r) ==
    /\ run[r].pc = "fetch_stats"
    /\ \E out \in {"info", "None", "raise"} :
          Apply(r, FetchChannelStatsStep(Cur(r), out))
    /\ UNCHANGED <<launched, persisted, analyzer>>

FindCompetitors(r) ==
    /\ run[r].pc = "find_competitors"
    /\ \E out \in {"ok", "raise"} : Apply(r, FindCompetitorsStep(Cur(r), out))
    /\ UNCHANGED <<launched, persisted, analyzer>>

FetchCompetitorVideos(r) ==
    /\ run[r].pc = "fetch_competitor_videos"
    /\ \E out \in {"ok", "raise"} : Apply(r, FetchCompetitorVideosStep(Cur(r), out))
    /\ UNCHANGED <<launched, persisted, analyzer>>

Analyze(r) ==
    /\ run[r].pc = "analyze"
    /\ \E out \in {"ok", "raise"} : Apply(r, AnalyzeStep(Cur(r), out))
    /\ UNCHANGED <<launched, persisted, analyzer>>

GenerateRecommendation(r) ==
    /\ run[r].pc = "generate_recommendation"
    /\ \E len \in 0..MaxRecs : Apply(r, GenerateRecommendationStep(Cur(r), len))
    /\ UNCHANGED <<launched, persisted, analyzer>>

SaveRecommendation(r) ==
    /\ run[r].pc = "save_recommendation"
    /\ \E out \in {"ok", "raise"} :
          /\ Apply(r, SaveRecommendationStep(Cur(r), out))
          /\ persisted' = IF Persists(Cur(r), out)
                          THEN [persisted EXCEPT ![run[r].llm_recommender] = @ + 1]
                          ELSE persisted
    /\ UNCHANGED <<launched, analyzer>>

GenerateScript(r) ==
    /\ run[r].pc = "generate_script"
    /\ \E out \in {"full", "empty", "raise"} :
          Apply(r, GenerateScriptStep(Cur(r), out))
    /\ UNCHANGED <<launched, persisted, analyzer>>

SaveScript(r) ==
    /\ run[r].pc = "save_script"
    /\ \E out \in {"ok", "raise"} : Apply(r, SaveScriptStep(Cur(r), out))
    /\ UNCHANGED <<launched, persisted, analyzer>>

Format(r) ==
    /\ run[r].pc = "format"
    /\ \E out \in {"ok", "raise"} : Apply(r, FormatStep(Cur(r), out))
    /\ UNCHANGED <<launched, persisted, analyzer>>

Render(r) ==
    /\ run[r].pc = "render"
    /\ \E out \in {"ok", "raise"} : Apply(r, RenderStep(Cur(r), out))
    /\ UNCHANGED <<launched, persisted, analyzer>>

\* the steps of the runs
Steps ==
    \/ \E r \in Slots : WorkerStart(r)
    \/ \E r \in Slots : Begin(r)
    \/ \E r \in Slots : FetchChannelData(r)
    \/ \E r \in Slots : FetchChannelStats(r)
    \/ \E r \in Slots : FindCompetitors(r)
    \/ \E r \in Slots : FetchCompetitorVideos(r)
    \/ \E r \in Slots : Analyze(r)
    \/ \E r \in Slots : GenerateRecommendation(r)
    \/ \E r \in Slots : SaveRecommendation(r)
    \/ \E r \in Slots : GenerateScript(r)
    \/ \E r \in Slots : SaveScript(r)
    \/ \E r \in Slots : Format(r)
    \/ \E r \in Slots : Render(r)
    \/ \E r \in Slots : WorkerFinish(r)

\* requests arrive at any time
ApiStart == StartPipeline(MaxRuns)
ApiGenerateSelected == GenerateSelected(MaxRuns)
DirectRun == CallRun(MaxRuns)

Next ==
    \/ ApiStart
    \/ ApiGenerateSelected
    \/ DirectRun
    \/ Steps

Spec == Init /\ [][Next]_vars

\* one run at a time: every request and call waits until no run is queued
\* or in progress
SeqApiStart == Quiet /\ StartPipeline(MaxSeqRuns)
SeqApiGenerateSelected == Quiet /\ GenerateSelected(MaxSeqRuns)
SeqDirectRun == CallRun(MaxSeqRuns)

NextSeq ==
    \/ SeqApiStart
    \/ SeqApiGenerateSelected
    \/ SeqDirectRun
    \/ Steps

SpecSeq == Init /\ [][NextSeq]_vars

\* the app alone, with one more request than Spec: start and selection
\* requests arrive at any time, and every run is a worker of the app
AppStart == StartPipeline(MaxAppRuns)
AppGenerateSelected == GenerateSelected(MaxAppRuns)

NextApp ==
    \/ AppStart
    \/ AppGenerateSelected
    \/ Steps

SpecApp == Init /\ [][NextApp]_vars

\* the steps of the run in slot r: the worker thread of a run the app
\* launched, or the caller's thread
StepsOf(r) ==
    \/ WorkerStart(r) \/ Begin(r) \/ FetchChannelData(r) \/ FetchChannelStats(r)
    \/ FindCompetitors(r) \/ FetchCompetitorVideos(r) \/ Analyze(r)
    \/ GenerateRecommendation(r) \/ SaveRecommendation(r) \/ GenerateScript(r)
    \/ SaveScript(r) \/ Format(r) \/ Render(r) \/ WorkerFinish(r)

\* every thread that has a step to take is scheduled, and every collaborator
\* call returns or raises
SpecLive == Init /\ [][Next]_vars /\ \A r \in Slots : WF_vars(StepsOf(r))

\* ------------------------------------------------- DataFetcher / analyzer
\* The MetricsAnalyzer and the frame the DataFetcher builds, exercised on
\* their own.  A DataFrame is its set of columns and its rows in index
\* order; the index label of a row is its position in the input.

\* the counts the API returns for an item: int(statistics.get(..., 0))
ViewCounts == {0, 1, 2}
LikeCounts == {0, 1}
CommentCounts == {0, 1}
Videos == [views : ViewCounts, likes : LikeCounts, comments_count : CommentCounts]

\* the sequences of at most n elements of S
SeqsUpTo(S, n) == UNION {[1..k -> S] : k \in 0..n}

\* a float that is the quotient of two integers, kept as the exact quotient
Frac(n, d) == [num |-> n, den |-> d]
FracLess(a, b) == a.num * b.den < b.num * a.den
FracEq(a, b) == a.num * b.den = b.num * a.den
\* the value of a column that does not exist in the frame
NoValue == Frac(0, 0)

\* a float that is the result of several rounded operations: the exact value
\* num/den and the side (-1, 0, +1) on which the roundings left the float
Score(n, d, ulp) == [num |-> n, den |-> d, ulp |-> ulp]
NoScore == Score(0, 0, 0)
ScoreLess(a, b) ==
    \/ a.num * b.den < b.num * a.den
    \/ a.num * b.den = b.num * a.den /\ a.ulp < b.ulp

\* a replace that replaces nothing
Replace_Nothing(x, old, new) == x

\* Series.replace(old, new)
Replace(x, old, new) == IF x = old THEN new ELSE x

\* a rate that leaves the comments out
EngagementRate_LikesOnly(v) == Frac(v.likes, Replace(v.views, 0, 1))

\* (likes + comments_count) / views.replace(0, 1)
EngagementRate(v) == Frac(v.likes + v.comments_count, Replace(v.views, 0, 1))

CountColumns == {"views", "likes", "comments_count"}

\* pd.DataFrame(videos): the list of dicts the API returned
DataFrame(videos) ==
    [columns |-> IF Len(videos) = 0 THEN {} ELSE CountColumns,
     rows |-> [i \in 1..Len(videos) |->
                 [views |-> videos[i].views, likes |-> videos[i].likes,
                  comments_count |-> videos[i].comments_count,
                  engagement_rate |-> NoValue, performance_score |-> NoScore]]]

\* df[column] = values
SetColumn(df, column, values) ==
    [columns |-> df.columns \cup {column},
     rows |-> [i \in 1..Len(df.rows) |->
                 [df.rows[i] EXCEPT ![column] = values[i]]]]

\* DataFetcher._process_data: df_clean['engagement_rate'] = ...
ProcessData(videos) ==
    LET df == DataFrame(videos)
    IN  SetColumn(df, "engagement_rate",
                  [i \in 1..Len(df.rows) |-> EngagementRate(df.rows[i])])

\* MetricsAnalyzer._ensure_metrics_columns: the rate is computed only when
\* the column is missing, and is 0 when a count column is missing too; the
\* missing count columns are then filled with 0
EnsureMetricsColumns(df) ==
    LET n == Len(df.rows)
        rated ==
            IF "engagement_rate" \in df.columns THEN df
            ELSE IF CountColumns \subseteq df.columns
                 THEN SetColumn(df, "engagement_rate",
                                [i \in 1..n |-> EngagementRate(df.rows[i])])
                 ELSE SetColumn(df, "engagement_rate", [i \in 1..n |-> Frac(0, 1)])
    IN  [columns |-> rated.columns \cup CountColumns \cup {"title"},
         rows |-> rated.rows]

\* the analyzer under study: the last operation applied (fn), the item list
\* the API returned, the frame built from it and the operation's result
Metrics(fn, videos, df, out) == [fn |-> fn, videos |-> videos, df |-> df, out |-> out]
NoFrame == [columns |-> {}, rows |-> <<>>]
NoResult == [kind |-> "none"]

\* three items with views 100, 50, 10, likes 10, 5, 1 and comments 2, 1, 0
ExampleVideos ==
    <<[views |-> 100, likes |-> 10, comments_count |-> 2],
      [views |-> 50, likes |-> 5, comments_count |-> 1],
      [views |-> 10, likes |-> 1, comments_count |-> 0]>>

\* YouTubeAPI.get_channel_videos has returned the items of the channel
InitMetrics ==
    /\ pipeline_state = InitialPipelineState
    /\ heap = [k \in Ids |-> Unallocated]
    /\ run = [r \in Slots |-> IdleRun]
    /\ launched = 0
    /\ persisted = [k \in Ids |-> 0]
    /\ \E videos \in SeqsUpTo(Videos, MaxItems) \cup {ExampleVideos} :
          analyzer = Metrics("videos", videos, NoFrame, NoResult)

\* DataFetcher.fetch_channel_data: no frame is built from an empty list
FetchChannelDataFrame ==
    /\ analyzer.fn = "videos"
    /\ Len(analyzer.videos) > 0
    /\ analyzer' = Metrics("fetched", analyzer.videos, ProcessData(analyzer.videos), NoResult)
    /\ UNCHANGED <<pipeline_state, heap, run, launched, persisted>>

\* MetricsAnalyzer(pd.DataFrame(videos)): an analyzer built on a frame that
\* has no engagement_rate column yet
NewMetricsAnalyzer ==
    /\ analyzer.fn = "videos"
    /\ analyzer' = Metrics("raw", analyzer.videos, DataFrame(analyzer.videos), NoResult)
    /\ UNCHANGED <<pipeline_state, heap, run, launched, persisted>>

\* the call of _ensure_metrics_columns that opens analyze,
\* top_videos_by_engagement and recent_engagement
EnsureColumns ==
    /\ analyzer.fn \in {"fetched", "raw"}
    /\ analyzer' = Metrics("ensured", analyzer.videos, EnsureMetricsColumns(analyzer.df), NoResult)
    /\ UNCHANGED <<pipeline_state, heap, run, launched, persisted>>

Column(df, column) == [i \in 1..Len(df.rows) |-> df.rows[i][column]]
SeqMax(values) == CHOOSE m \in {values[i] : i \in DOMAIN values} :
                      \A i \in DOMAIN values : values[i] <= m
\* no normalisation: every count is divided by 1
ScaleMax_One(values) == 1

\* df[column].max() if df[column].max() > 0 else 1 (the max of an empty
\* column is NaN, and NaN > 0 is false)
ScaleMax(values) ==
    IF Len(values) > 0 /\ SeqMax(values) > 0 THEN SeqMax(values) ELSE 1

\* views / views_max * 0.4 + likes / likes_max * 0.3
\*   + comments_count / comments_max * 0.3, over the denominator
\* 10 * views_max * likes_max * comments_max
PerformanceScore(v, views_max, likes_max, comments_max, ulp) ==
    Score(4 * v.views * likes_max * comments_max
            + 3 * v.likes * views_max * comments_max
            + 3 * v.comments_count * views_max * likes_max,
          10 * views_max * likes_max * comments_max, ulp)

\* The roundings of the five float operations of a score: the same counts
\* give the same float, 0/m*w sums to 0.0 exactly and m/m*0.4 + m/m*0.3 +
\* m/m*0.3 is 1.0 exactly; any other score may end one side or the other of
\* its exact value (0/1*0.4 + 1/1*0.3 + 1/3*0.3 is 0.39999999999999997 while
\* 1/1*0.4 + 0/1*0.3 + 0/3*0.3 is 0.4).
Roundings(df) ==
    LET n == Len(df.rows)
        vm == ScaleMax(Column(df, "views"))
        lm == ScaleMax(Column(df, "likes"))
        cm == ScaleMax(Column(df, "comments_count"))
        exact(i) == PerformanceScore(df.rows[i], vm, lm, cm, 0)
        same(i, j) == /\ df.rows[i].views = df.rows[j].views
                      /\ df.rows[i].likes = df.rows[j].likes
                      /\ df.rows[i].comments_count = df.rows[j].comments_count
    IN  {ulp \in [1..n -> {-1, 0, 1}] :
            /\ \A i, j \in 1..n : same(i, j) => ulp[i] = ulp[j]
            /\ \A i \in 1..n : exact(i).num \in {0, exact(i).den} => ulp[i] = 0}

\* the label of the last occurrence of the maximum
IdxMax_Last(scores) ==
    CHOOSE i \in DOMAIN scores :
        /\ \A j \in DOMAIN scores : ~ScoreLess(scores[i], scores[j])
        /\ \A j \in DOMAIN scores : j > i => ScoreLess(scores[j], scores[i])

\* Series.idxmax(): the label of the first occurrence of the maximum
IdxMax(scores) ==
    CHOOSE i \in DOMAIN scores :
        /\ \A j \in DOMAIN scores : ~ScoreLess(scores[i], scores[j])
        /\ \A j \in DOMAIN scores : j < i => ScoreLess(scores[j], scores[i])

\* MetricsAnalyzer._get_best_performing_video: the frame with its
\* performance_score column, and the dict returned for the best row
GetBestPerformingVideo(df, ulp) ==
    IF ~({"views", "likes", "comments_count"} \subseteq df.columns)
    THEN [df |-> df, out |-> [kind |-> "No video data"]]
    ELSE LET vm == ScaleMax(Column(df, "views"))
             lm == ScaleMax(Column(df, "likes"))
             cm == ScaleMax(Column(df, "comments_count"))
             scored == SetColumn(df, "performance_score",
                           [i \in 1..Len(df.rows) |->
                               PerformanceScore(df.rows[i], vm, lm, cm, ulp[i])])
         IN  IF Len(df.rows) = 0
             THEN [df |-> scored, out |-> [kind |-> "ValueError"]]
             ELSE LET best_idx == IdxMax(Column(scored, "performance_score"))
                  IN  [df |-> scored,
                       out |-> [kind |-> "video", idx |-> best_idx,
                                views |-> scored.rows[best_idx].views,
                                likes |-> scored.rows[best_idx].likes,
                                performance_score |->
                                    scored.rows[best_idx].performance_score]]

\* _analyze_channel_metrics: 'best_video': self._get_best_performing_video(df)
BestVideo ==
    /\ analyzer.fn = "ensured"
    /\ \E ulp \in Roundings(analyzer.df) :
          LET r == GetBestPerformingVideo(analyzer.df, ulp)
          IN  analyzer' = Metrics("best_video", analyzer.videos, r.df, r.out)
    /\ UNCHANGED <<pipeline_state, heap, run, launched, persisted>>

\* the k-th smallest value of a column (k from 1)
KthSmallest(values, k) ==
    CHOOSE x \in {values[i] : i \in DOMAIN values} :
        /\ Cardinality({i \in DOMAIN values : values[i] < x}) < k
        /\ Cardinality({i \in DOMAIN values : values[i] <= x}) >= k

\* Series.quantile(0.1), linear interpolation: with the values in ascending
\* order and position 0.1 * (n - 1) = lo + r/10, the value
\* s[lo] + r/10 * (s[lo + 1] - s[lo]), over the denominator 10
Quantile10(values) ==
    LET n == Len(values)
        lo == (n - 1) \div 10
        r == (n - 1) % 10
        a == KthSmallest(values, lo + 1)
    IN  IF r = 0 THEN Frac(10 * a, 10)
        ELSE Frac(10 * a + r * (KthSmallest(values, lo + 2) - a), 10)

\* df[df['views'] > q]: the labels of the rows kept
ViewsAbove(df, q) == {i \in 1..Len(df.rows) : FracLess(q, Frac(df.rows[i].views, 1))}

\* Series.idxmin() of the engagement rates of the rows with labels in P: the
\* first occurrence of the minimum
IdxMinRate(df, P) ==
    CHOOSE i \in P :
        /\ \A j \in P : ~FracLess(df.rows[j].engagement_rate, df.rows[i].engagement_rate)
        /\ \A j \in P : j < i =>
               FracLess(df.rows[i].engagement_rate, df.rows[j].engagement_rate)

\* MetricsAnalyzer._get_worst_performing_video: the label of the worst row,
\* 0 for the default dict 'No video data'
WorstIdx(df) ==
    IF {"engagement_rate", "views"} \subseteq df.columns /\ Len(df.rows) > 0
    THEN LET q == Quantile10(Column(df, "views"))
             all == 1..Len(df.rows)
         IN  IF FracLess(Frac(0, 1), q)
             THEN IF ViewsAbove(df, q) # {}
                  THEN IdxMinRate(df, ViewsAbove(df, q))
                  ELSE IdxMinRate(df, all)
             ELSE IdxMinRate(df, all)
    ELSE 0

GetWorstPerformingVideo(df) ==
    LET worst_idx == WorstIdx(df)
    IN  IF worst_idx = 0 THEN [kind |-> "No video data"]
        ELSE [kind |-> "video", idx |-> worst_idx,
              views |-> df.rows[worst_idx].views,
              likes |-> df.rows[worst_idx].likes,
              engagement_rate |-> df.rows[worst_idx].engagement_rate]

\* _analyze_channel_metrics: 'worst_video': self._get_worst_performing_video(df)
WorstVideo ==
    /\ analyzer.fn = "ensured"
    /\ analyzer' = Metrics("worst_video", analyzer.videos, analyzer.df,
                           GetWorstPerformingVideo(analyzer.df))
    /\ UNCHANGED <<pipeline_state, heap, run, launched, persisted>>

\* no sort: the labels in any order
SortValues_AnyOrder(df) ==
    LET n == Len(df.rows)
    IN  {p \in [1..n -> 1..n] : \A i, j \in 1..n : p[i] = p[j] => i = j}

\* df.sort_values(by='engagement_rate', ascending=False): the orders of the
\* labels the sort may produce; the default sort is not stable, so rows of
\* equal rate come out in any order
SortValuesDescending(df) ==
    LET n == Len(df.rows)
    IN  {p \in [1..n -> 1..n] :
            /\ \A i, j \in 1..n : p[i] = p[j] => i = j
            /\ \A i, j \in 1..n : i < j =>
                   ~FracLess(df.rows[p[i]].engagement_rate, df.rows[p[j]].engagement_rate)}

\* .head(top_n) for top_n >= 0
HeadN(labels, top_n) ==
    [i \in 1..(IF top_n < Len(labels) THEN top_n ELSE Len(labels)) |-> labels[i]]

\* [['title', 'engagement_rate']].to_dict(orient='records'): a record is the
\* label of its row (which stands for the title) and the rate
Records(df, labels) ==
    [i \in 1..Len(labels) |->
        [idx |-> labels[i], engagement_rate |-> df.rows[labels[i]].engagement_rate]]

\* MetricsAnalyzer.top_videos_by_engagement after its _ensure_metrics_columns
TopVideosByEngagement(df, top_n, sorted) ==
    IF "engagement_rate" \notin df.columns \/ Len(df.rows) = 0 THEN <<>>
    ELSE Records(df, HeadN(sorted, top_n))

TopVideos ==
    /\ analyzer.fn = "ensured"
    /\ \E top_n \in 0..(MaxItems + 1) : \E sorted \in SortValuesDescending(analyzer.df) :
          analyzer' = Metrics("top_videos", analyzer.videos, analyzer.df,
                              [kind |-> "records", top_n |-> top_n,
                               records |-> TopVideosByEngagement(analyzer.df, top_n, sorted)])
    /\ UNCHANGED <<pipeline_state, heap, run, launched, persisted>>

\* the items of the comparison channels
CompetitorItems ==
    {[views |-> 0, likes |-> 1, comments_count |-> 0],
     [views |-> 1, likes |-> 0, comments_count |-> 0],
     [views |-> 2, likes |-> 1, comments_count |-> 1]}

\* an analyzer with its competitor_videos: the dict that
\* CompetitorFinder.fetch_competitor_videos built, in insertion order (the
\* channel id is the position), each channel with the item list the API
\* returned; next is the position of the loop of _compare_with_competitors
Comparing(fn, competitor_videos, next, comparisons) ==
    [fn |-> fn, competitor_videos |-> competitor_videos, next |-> next,
     comparisons |-> comparisons]
EmptyDict == [c \in {} |-> 0]
DictSet(dict, key, value) ==
    [c \in DOMAIN dict \cup {key} |-> IF c = key THEN value ELSE dict[c]]

InitCompetitors ==
    /\ pipeline_state = InitialPipelineState
    /\ heap = [k \in Ids |-> Unallocated]
    /\ run = [r \in Slots |-> IdleRun]
    /\ launched = 0
    /\ persisted = [k \in Ids |-> 0]
    /\ \E competitor_videos \in SeqsUpTo(SeqsUpTo(CompetitorItems, MaxCompItems), MaxChannels) :
          analyzer = Comparing("competitors", competitor_videos, 0, EmptyDict)

SeqSum(values) ==
    LET RECURSIVE Sum(_)
        Sum(k) == IF k = 0 THEN 0 ELSE values[k] + Sum(k - 1)
    IN  Sum(Len(values))
\* a mean that is the first value of the column
Mean_First(values) == Frac(values[1], 1)

\* Series.mean() of a column of integers
Mean(values) == Frac(SeqSum(values), Len(values))

\* Series.mean() of the engagement rates: the exact mean, and the side on
\* which summing and dividing the floats left the result
RateMean(df, ulp) ==
    LET RECURSIVE Sum(_)
        Sum(k) == IF k = 0 THEN Frac(0, 1)
                  ELSE LET s == Sum(k - 1)
                           x == df.rows[k].engagement_rate
                       IN  Frac(s.num * x.den + x.num * s.den, s.den * x.den)
        total == Sum(Len(df.rows))
    IN  Score(total.num, total.den * Len(df.rows), ulp)
\* a mean of one float is that float, and a sum of zeros is zero
MeanRoundings(df) ==
    IF Len(df.rows) = 1 \/ \A i \in 1..Len(df.rows) : df.rows[i].engagement_rate.num = 0
    THEN {0} ELSE {-1, 0, 1}

\* the body of the loop of _compare_with_competitors for one channel that
\* has items: comp_df with its engagement_rate column, and the report entry
CompareEntry(videos, ulp, mean_ulp) ==
    LET frame == DataFrame(videos)
        comp_df == IF CountColumns \subseteq frame.columns
                   THEN SetColumn(frame, "engagement_rate",
                            [i \in 1..Len(frame.rows) |-> EngagementRate(frame.rows[i])])
                   ELSE frame
        best == GetBestPerformingVideo(comp_df, ulp)
    IN  [avg_views |-> Mean(Column(comp_df, "views")),
         avg_likes |-> Mean(Column(comp_df, "likes")),
         avg_engagement_rate |-> RateMean(comp_df, mean_ulp),
         video_count |-> Len(comp_df.rows),
         best_video |-> best.out,
         comp_df |-> best.df]

\* _compare_with_competitors up to its loop: {} when there are no channels
CompareWithCompetitors ==
    /\ analyzer.fn = "competitors"
    /\ analyzer' = IF Len(analyzer.competitor_videos) = 0
                   THEN Comparing("compared", analyzer.competitor_videos, 0, EmptyDict)
                   ELSE Comparing("comparing", analyzer.competitor_videos, 1, EmptyDict)
    /\ UNCHANGED <<pipeline_state, heap, run, launched, persisted>>

\* one turn of the loop: a channel without items is skipped; after the last
\* channel the report is returned
CompareChannel ==
    /\ analyzer.fn = "comparing"
    /\ LET channel_id == analyzer.next
           videos == analyzer.competitor_videos[channel_id]
           last == channel_id = Len(analyzer.competitor_videos)
           fn == IF last THEN "compared" ELSE "comparing"
       IN  IF Len(videos) = 0
           THEN analyzer' = Comparing(fn, analyzer.competitor_videos, channel_id + 1,
                                      analyzer.comparisons)
           ELSE \E ulp \in Roundings(DataFrame(videos)) :
                \E mean_ulp \in MeanRoundings(ProcessData(videos)) :
                   analyzer' = Comparing(fn, analyzer.competitor_videos, channel_id + 1,
                                   DictSet(analyzer.comparisons, channel_id,
                                           CompareEntry(videos, ulp, mean_ulp)))
    /\ UNCHANGED <<pipeline_state, heap, run, launched, persisted>>

MetricsNext ==
    \/ FetchChannelDataFrame
    \/ NewMetricsAnalyzer
    \/ EnsureColumns
    \/ BestVideo
    \/ WorstVideo
    \/ TopVideos
    \/ CompareWithCompetitors
    \/ CompareChannel

\* the analyzer's functions applied to the items of a channel and to the
\* items of comparison channels
SpecMetrics == (InitMetrics \/ InitCompetitors) /\ [][MetricsNext]_vars

\* ------------------------------------------------------- _parse_duration
\* A string is the sequence of its characters.
Str(chars) == [type |-> "str", chars |-> chars]
DigitChars == {"0", "1", "2", "5", "7"}
\* int() of one digit
DigitValue(c) ==
    IF c = "0" THEN 0 ELSE IF c = "1" THEN 1 ELSE IF c = "2" THEN 2
    ELSE IF c = "5" THEN 5 ELSE 7
\* int() of the digits chars[from..to]
IntOf(chars, from, to) ==
    LET RECURSIVE Value(_)
        Value(k) == IF k < from THEN 0 ELSE 10 * Value(k - 1) + DigitValue(chars[k])
    IN  Value(to)

\* \d+ at position pos, greedy: the position after the last digit of the run
DigitsEnd(chars, pos) ==
    LET RECURSIVE End(_)
        End(k) == IF k <= Len(chars) /\ chars[k] \in DigitChars THEN End(k + 1) ELSE k
    IN  End(pos)

\* (?:(\d+)X)? at position pos: the group is captured when a run of digits
\* is followed by the letter (giving up digits of the run cannot help, the
\* next character would be a digit); otherwise the group is None and
\* nothing is consumed
OptionalGroup(chars, pos, letter) ==
    LET e == DigitsEnd(chars, pos)
    IN  IF e > pos /\ e <= Len(chars) /\ chars[e] = letter
        THEN [group |-> IntOf(chars, pos, e - 1), next |-> e + 1]
        ELSE [group |-> 0, next |-> pos]

\* re.compile(r'PT(?:(\d+)H)?(?:(\d+)M)?(?:(\d+)S)?').match(duration): match
\* anchors at the start of the string only; None is the empty sequence
Match(chars) ==
    IF Len(chars) >= 2 /\ chars[1] = "P" /\ chars[2] = "T"
    THEN LET h == OptionalGroup(chars, 3, "H")
             m == OptionalGroup(chars, h.next, "M")
             s == OptionalGroup(chars, m.next, "S")
         IN  <<[hours |-> h.group, minutes |-> m.group, seconds |-> s.group,
                end |-> s.next]>>
    ELSE <<>>

\* MetricsAnalyzer._parse_duration
ParseDuration(duration) ==
    IF duration.type # "str" THEN 300
    ELSE LET match == Match(duration.chars)
         IN  IF match = <<>> THEN 300
             ELSE match[1].hours * 3600 + match[1].minutes * 60 + match[1].seconds

\* the values of the duration column: strings put together from a prefix,
\* hour, minute and second components (well formed, without digits, or
\* missing) and a tail, and values that are not strings
Numerals == {<<"5">>, <<"1", "2">>, <<"0", "7">>}
Component(letter) == {n \o <<letter>> : n \in Numerals}
ComponentTexts(letter) == {<<>>, <<letter>>} \cup Component(letter)
Prefixes == {<<>>, <<"P">>, <<"T">>, <<"P", "T">>, <<"p", "t">>,
             <<"x", "P", "T">>, <<"P", "1", "D", "T">>}
Tails == {<<>>, <<"x">>, <<"7">>, <<"H">>}
Durations ==
    {Str(p \o h \o m \o s \o t) :
        p \in Prefixes, h \in ComponentTexts("H"), m \in ComponentTexts("M"),
        s \in ComponentTexts("S"), t \in Tails}
      \cup {[type |-> "float", chars |-> <<>>], [type |-> "NoneType", chars |-> <<>>]}

InitDuration ==
    /\ pipeline_state = InitialPipelineState
    /\ heap = [k \in Ids |-> Unallocated]
    /\ run = [r \in Slots |-> IdleRun]
    /\ launched = 0
    /\ persisted = [k \in Ids |-> 0]
    /\ \E duration \in Durations :
          analyzer = [fn |-> "duration", duration |-> duration, seconds |-> 0]

\* _analyze_content: df['duration'].apply(self._parse_duration), one value
ParseDurationValue ==
    /\ analyzer.fn = "duration"
    /\ analyzer' = [fn |-> "duration_seconds", duration |-> analyzer.duration,
                    seconds |-> ParseDuration(analyzer.duration)]
    /\ UNCHANGED <<pipeline_state, heap, run, launched, persisted>>

\* _parse_duration applied to the values of a duration column
SpecDuration == InitDuration /\ [][ParseDurationValue]_vars

\* the publication times of the items: a day name and an hour, or NaT (an
\* empty publishedAt string converts to NaT)
DayNames == {"Friday", "Monday", "Tuesday"}
Hours == {0, 17}
NaT == [day_of_week |-> "NaN", hour_of_day |-> -1]
Stamps == [day_of_week : DayNames, hour_of_day : Hours] \cup {NaT}
\* the order in which groupby (sort=True) lists its keys
SortedDayNames == <<"Friday", "Monday", "Tuesday">>
SortedHours == <<0, 17>>
Rates == {EngagementRate(v) : v \in Videos}
StampedRows == [published_at : Stamps, engagement_rate : Rates]
\* the published_at column: not in the frame, with a value that
\* pd.to_datetime cannot parse, or convertible
PublishedAtColumns == {"absent", "unparseable", "datetime"}

\* a result that is None, and one that is a key of a dict
Null == [kind |-> "None"]
Key(k) == [kind |-> "key", key |-> k]

InitTemporal ==
    /\ pipeline_state = InitialPipelineState
    /\ heap = [k \in Ids |-> Unallocated]
    /\ run = [r \in Slots |-> IdleRun]
    /\ launched = 0
    /\ persisted = [k \in Ids |-> 0]
    /\ \E n \in 0..MaxStamped, column \in PublishedAtColumns :
          \E rows \in [1..n -> StampedRows] :
              analyzer = [fn |-> "stamped", published_at |-> column, rows |-> rows,
                          out |-> NoResult]

\* the rows of one group; groupby drops the rows whose key is NaN
Group(rows, by, key) == SelectSeq(rows, LAMBDA row : row.published_at[by] = key)
GroupKeys(rows, by) ==
    {rows[i].published_at[by] : i \in DOMAIN rows} \ {NaT[by]}

\* df.groupby(by)['engagement_rate'].mean().to_dict(), with the side on
\* which each mean was rounded
GroupByMean(rows, by, ulps) ==
    [key \in GroupKeys(rows, by) |->
        RateMean([rows |-> Group(rows, by, key)], ulps[key])]
GroupRoundings(rows, by) ==
    {ulps \in [GroupKeys(rows, by) -> {-1, 0, 1}] :
        \A key \in GroupKeys(rows, by) :
            ulps[key] \in MeanRoundings([rows |-> Group(rows, by, key)])}

\* a max that keeps the last of the keys with the largest value
MaxKey_Last(performance, sorted) ==
    LET RECURSIVE Scan(_)
        Scan(k) ==
            IF k = 0 THEN Null
            ELSE LET best == Scan(k - 1)
                 IN  IF sorted[k] \notin DOMAIN performance THEN best
                     ELSE IF best = Null THEN Key(sorted[k])
                     ELSE IF ~ScoreLess(performance[sorted[k]], performance[best.key])
                          THEN Key(sorted[k]) ELSE best
    IN  Scan(Len(sorted))

\* max(performance, key=performance.get) if performance else None: the dict
\* is scanned in its key order and a key replaces the best so far only when
\* its value is larger
MaxKey(performance, sorted) ==
    LET RECURSIVE Scan(_)
        Scan(k) ==
            IF k = 0 THEN Null
            ELSE LET best == Scan(k - 1)
                 IN  IF sorted[k] \notin DOMAIN performance THEN best
                     ELSE IF best = Null THEN Key(sorted[k])
                     ELSE IF ScoreLess(performance[best.key], performance[sorted[k]])
                          THEN Key(sorted[k]) ELSE best
    IN  Scan(Len(sorted))

NullPatterns ==
    [kind |-> "temporal", best_day |-> Null, best_hour |-> Null,
     day_performance |-> EmptyDict, hour_performance |-> EmptyDict]

\* MetricsAnalyzer._analyze_temporal_patterns
AnalyzeTemporalPatterns(column, rows, day_ulps, hour_ulps) ==
    IF column = "absent" THEN NullPatterns
    ELSE IF column = "unparseable" THEN NullPatterns
    ELSE LET day_performance == GroupByMean(rows, "day_of_week", day_ulps)
             hour_performance == GroupByMean(rows, "hour_of_day", hour_ulps)
         IN  [kind |-> "temporal",
              best_day |-> MaxKey(day_performance, SortedDayNames),
              best_hour |-> MaxKey(hour_performance, SortedHours),
              day_performance |-> day_performance,
              hour_performance |-> hour_performance]

TemporalPatterns ==
    /\ analyzer.fn = "stamped"
    /\ \E day_ulps \in GroupRoundings(analyzer.rows, "day_of_week"),
          hour_ulps \in GroupRoundings(analyzer.rows, "hour_of_day") :
          analyzer' = [analyzer EXCEPT
              !.fn = "temporal",
              !.out = AnalyzeTemporalPatterns(analyzer.published_at, analyzer.rows,
                                              day_ulps, hour_ulps)]
    /\ UNCHANGED <<pipeline_state, heap, run, launched, persisted>>

\* _analyze_temporal_patterns on a frame of its own
SpecTemporal == InitTemporal /\ [][TemporalPatterns]_vars

\* the rows of a frame as _analyze_content reads them: a title and a
\* duration as the API returned it
ContentRows ==
    {[title |-> Str(<<"V", "l", "o", "g">>), duration |-> Str(<<"P", "T", "5", "M">>)],
     [title |-> Str(<<"Q", "A">>), duration |-> [type |-> "float", chars |-> <<>>]]}
ContentColumns == {"title", "duration"}

InitContent ==
    /\ pipeline_state = InitialPipelineState
    /\ heap = [k \in Ids |-> Unallocated]
    /\ run = [r \in Slots |-> IdleRun]
    /\ launched = 0
    /\ persisted = [k \in Ids |-> 0]
    /\ \E n \in 0..MaxTitled, columns \in SUBSET ContentColumns :
          \E rows \in [1..n -> ContentRows] :
              analyzer = [fn |-> "titled", df |-> [columns |-> columns, rows |-> rows],
                          clustering |-> NoResult, out |-> NoResult]

\* n_clusters = min(5, len(df))
NClusters(df) == IF Len(df.rows) < 5 THEN Len(df.rows) ELSE 5

\* what the vectorizer and KMeans can do with the titles: fit_transform
\* raises (an empty vocabulary), fit_predict raises, or every row gets one
\* of the n_clusters labels
Clusterings(df) ==
    {[kind |-> "error", at |-> at, labels |-> <<>>] : at \in {"fit_transform", "fit_predict"}}
      \cup {[kind |-> "labels", at |-> "", labels |-> labels] :
                labels \in [1..Len(df.rows) -> 0..(NClusters(df) - 1)]}

\* a threshold that never stops the clustering
TooFewToCluster_Never(df) == "title" \notin df.columns

\* len(df) < 3 or 'title' not in df.columns
TooFewToCluster(df) == Len(df.rows) < 3 \/ "title" \notin df.columns

\* the clusters dict built by the loop over range(n_clusters): the key
\* cluster_id stands for f'topic_{cluster_id}'
Clusters(df, labels) ==
    LET TitlesOf(cluster_id) ==
            LET RECURSIVE Pick(_)
                Pick(k) == IF k = 0 THEN <<>>
                           ELSE IF labels[k] = cluster_id
                                THEN Append(Pick(k - 1), df.rows[k].title)
                                ELSE Pick(k - 1)
            IN  Pick(Len(df.rows))
        HeadTitles(titles) == SubSeq(titles, 1, IF Len(titles) < 3 THEN Len(titles) ELSE 3)
    IN  [cluster_id \in {c \in 0..(NClusters(df) - 1) : Len(TitlesOf(c)) > 0} |->
            [count |-> Len(TitlesOf(cluster_id)),
             sample_titles |-> HeadTitles(TitlesOf(cluster_id))]]

\* MetricsAnalyzer._cluster_topics: the dict returned, whether the
\* vectorizer was built, and whether an exception left the function
ClusterTopics(df, clustering) ==
    IF TooFewToCluster(df)
    THEN [topics |-> EmptyDict, attempted |-> FALSE, raised |-> FALSE]
    ELSE IF clustering.kind = "error"
         THEN [topics |-> EmptyDict, attempted |-> TRUE, raised |-> FALSE]
         ELSE [topics |-> Clusters(df, clustering.labels), attempted |-> TRUE,
               raised |-> FALSE]

\* the title_length and duration_seconds columns
TitleLengths(df) ==
    [k \in DOMAIN df.rows |->
        IF "title" \in df.columns THEN Len(df.rows[k].title.chars) ELSE 0]
DurationSeconds(df) ==
    [k \in DOMAIN df.rows |->
        IF "duration" \in df.columns THEN ParseDuration(df.rows[k].duration) ELSE 300]

\* MetricsAnalyzer._analyze_content
AnalyzeContent(df, clustering) ==
    LET clustered == ClusterTopics(df, clustering)
    IN  [kind |-> "content",
         avg_title_length |-> Mean(TitleLengths(df)),
         avg_duration_seconds |-> Mean(DurationSeconds(df)),
         topics |-> clustered.topics,
         attempted |-> clustered.attempted,
         raised |-> clustered.raised]

ContentAnalysis ==
    /\ analyzer.fn = "titled"
    /\ \E clustering \in IF TooFewToCluster(analyzer.df) THEN {NoResult}
                         ELSE Clusterings(analyzer.df) :
          analyzer' = [analyzer EXCEPT
              !.fn = "content",
              !.clustering = clustering,
              !.out = AnalyzeContent(analyzer.df, clustering)]
    /\ UNCHANGED <<pipeline_state, heap, run, launched, persisted>>

\* _analyze_content on a frame of its own
SpecContent == InitContent /\ [][ContentAnalysis]_vars

\* the rows of a channel's frame as _generate_recommendations reads them:
\* the counts with their rate, the title, the duration and the publication
\* time
AdvisedRow(views, likes, comments_count, title, day, hour) ==
    [views |-> views, likes |-> likes, comments_count |-> comments_count,
     engagement_rate |-> EngagementRate([views |-> views, likes |-> likes,
                                         comments_count |-> comments_count]),
     performance_score |-> NoScore,
     title |-> Str(title), duration |-> Str(<<"P", "T", "5", "M">>),
     published_at |-> [day_of_week |-> day, hour_of_day |-> hour]]
AdvisedRows ==
    {AdvisedRow(2, 1, 1, <<"V", "l", "o", "g">>, "Friday", 0),
     AdvisedRow(1, 0, 0, <<"Q", "A">>, "Monday", 17),
     AdvisedRow(0, 1, 0, <<"V", "l", "o", "g">>, "Friday", 17)}
AdvisedColumns ==
    CountColumns \cup {"engagement_rate", "title", "duration", "published_at"}
\* the comparison channels: none, or one channel with at most one item
AdvisedCompetitors == SeqsUpTo(SeqsUpTo(CompetitorItems, 1), 1)

\* the analyzer inside _generate_recommendations: the frame (never empty:
\* the run ends before the analysis when no items were collected), the
\* comparison channels, and the four analyses as they are computed
InitAdvice ==
    /\ pipeline_state = InitialPipelineState
    /\ heap = [k \in Ids |-> Unallocated]
    /\ run = [r \in Slots |-> IdleRun]
    /\ launched = 0
    /\ persisted = [k \in Ids |-> 0]
    /\ \E n \in 1..MaxAdvised, competitor_videos \in AdvisedCompetitors :
          \E rows \in [1..n -> AdvisedRows] :
              analyzer = [fn |-> "advice",
                          df |-> [columns |-> AdvisedColumns, rows |-> rows],
                          competitor_videos |-> competitor_videos,
                          channel_metrics |-> NoResult,
                          content_analysis |-> NoResult,
                          temporal_analysis |-> NoResult,
                          competitor_comparison |-> EmptyDict,
                          recommendations |-> <<>>]

\* channel_metrics = self._analyze_channel_metrics(): the entries that
\* _generate_recommendations reads
AdviceChannelMetrics ==
    /\ analyzer.fn = "advice"
    /\ \E ulp \in Roundings(analyzer.df) :
          analyzer' = [analyzer EXCEPT
              !.fn = "advice_content",
              !.channel_metrics =
                  [kind |-> "metrics",
                   avg_views |-> Mean(Column(analyzer.df, "views")),
                   best_video |-> GetBestPerformingVideo(analyzer.df, ulp).out,
                   worst_video |-> GetWorstPerformingVideo(analyzer.df)]]
    /\ UNCHANGED <<pipeline_state, heap, run, launched, persisted>>

\* content_analysis = self._analyze_content()
AdviceContent ==
    /\ analyzer.fn = "advice_content"
    /\ \E clustering \in IF TooFewToCluster(analyzer.df) THEN {NoResult}
                         ELSE Clusterings(analyzer.df) :
          analyzer' = [analyzer EXCEPT
              !.fn = "advice_temporal",
              !.content_analysis = AnalyzeContent(analyzer.df, clustering)]
    /\ UNCHANGED <<pipeline_state, heap, run, launched, persisted>>

\* temporal_analysis = self._analyze_temporal_patterns()
AdviceTemporal ==
    /\ analyzer.fn = "advice_temporal"
    /\ \E day_ulps \in GroupRoundings(analyzer.df.rows, "day_of_week"),
          hour_ulps \in GroupRoundings(analyzer.df.rows, "hour_of_day") :
          analyzer' = [analyzer EXCEPT
              !.fn = "advice_competitors",
              !.temporal_analysis =
                  AnalyzeTemporalPatterns("datetime", analyzer.df.rows,
                                          day_ulps, hour_ulps)]
    /\ UNCHANGED <<pipeline_state, heap, run, launched, persisted>>

\* the truth value Python gives best_day (a day name or None) and best_hour
\* (an integer or None): None and 0 are false
TruthyDay(best) == best # Null
TruthyHour(best) == best # Null /\ best.key # 0

\* the loop over topics.items()
ContentRecommendations(topics) ==
    LET RECURSIVE Scan(_)
        Scan(cluster_id) ==
            IF cluster_id < 0 THEN <<>>
            ELSE IF cluster_id \in DOMAIN topics /\ topics[cluster_id].count > 2
                 THEN Append(Scan(cluster_id - 1),
                             [kind |-> "Create more content similar to",
                              topic |-> cluster_id,
                              title |-> topics[cluster_id].sample_titles[1]])
                 ELSE Scan(cluster_id - 1)
    IN  Scan(4)

\* the timing recommendation
TimingRecommendations(temporal_analysis) ==
    IF TruthyDay(temporal_analysis.best_day) /\ TruthyHour(temporal_analysis.best_hour)
    THEN <<[kind |-> "Publish on", day |-> temporal_analysis.best_day.key,
            hour |-> temporal_analysis.best_hour.key]>>
    ELSE <<>>

\* the recommendations from the best and the worst item
PerformanceRecommendations(channel_metrics) ==
    (IF channel_metrics.best_video.kind # "No video data"
     THEN <<[kind |-> "Create more videos like", idx |-> channel_metrics.best_video.idx]>>
     ELSE <<>>)
      \o (IF channel_metrics.worst_video.kind # "No video data"
          THEN <<[kind |-> "Avoid topics/approaches similar to",
                  idx |-> channel_metrics.worst_video.idx]>>
          ELSE <<>>)

\* the loop over competitor_comparison.items()
CompetitorRecommendations(comparison, channel_metrics) ==
    LET RECURSIVE Scan(_)
        Scan(c) ==
            IF c = 0 THEN <<>>
            ELSE IF c \in DOMAIN comparison
                    /\ FracLess(channel_metrics.avg_views, comparison[c].avg_views)
                 THEN Append(Scan(c - 1), [kind |-> "Analyze", channel |-> c])
                 ELSE Scan(c - 1)
    IN  Scan(1)

\* competitor_comparison = self._compare_with_competitors(), then the list
\* is assembled and returned
GenerateRecommendations ==
    /\ analyzer.fn = "advice_competitors"
    /\ LET channels == analyzer.competitor_videos
           Advise(comparison) ==
               analyzer' = [analyzer EXCEPT
                   !.fn = "advised",
                   !.competitor_comparison = comparison,
                   !.recommendations =
                       ContentRecommendations(analyzer.content_analysis.topics)
                         \o TimingRecommendations(analyzer.temporal_analysis)
                         \o PerformanceRecommendations(analyzer.channel_metrics)
                         \o CompetitorRecommendations(comparison,
                                                      analyzer.channel_metrics)]
       IN  IF Len(channels) = 0 \/ Len(channels[1]) = 0
           THEN Advise(EmptyDict)
           ELSE \E ulp \in Roundings(DataFrame(channels[1])) :
                \E mean_ulp \in MeanRoundings(ProcessData(channels[1])) :
                    Advise(DictSet(EmptyDict, 1, CompareEntry(channels[1], ulp, mean_ulp)))
    /\ UNCHANGED <<pipeline_state, heap, run, launched, persisted>>

AdviceNext ==
    \/ AdviceChannelMetrics
    \/ AdviceContent
    \/ AdviceTemporal
    \/ GenerateRecommendations

\* _generate_recommendations on an analyzer of its own
SpecAdvice == InitAdvice /\ [][AdviceNext]_vars

\* ------------------------------------------------------------ observations
Stages(r) == {run[r].calls[i] : i \in DOMAIN run[r].calls}
Count(r, stage) == Cardinality({i \in DOMAIN run[r].calls : run[r].calls[i] = stage})
\* run has passed its dynamic workflow check
Begun(r) == run[r].pc \notin {"idle", "queued", "begin"}
\* run has returned
Ended(r) == run[r].returned # "running"
\* queued or in progress: requested, and run has not yet returned
InProgress(r) == ~Free(r) /\ ~Ended(r)
HasSelection(r) == run[r].selected_index # NoIndex
\* started with a selection on a record that holds a cached AnalysisResult
FastTrackCase(r) ==
    Begun(r) /\ HasSelection(r) /\ run[r].cached_at_begin # None
\* the run went the full path: collection, discovery, analysis
FullPath(r) == Begun(r) /\ ~FastTrackCase(r)
\* no collaborator raised and no exception reached the except clause
NoException(r) ==
    Ended(r) /\ run[r].raised = "" /\ run[r].end_details.text # "Pipeline failed: "
\* every stage of the run succeeded: no exception, and items were collected
AllStagesSucceeded(r) == NoException(r) /\ run[r].channel_videos # "nothing"

CollectionStages ==
    {"fetch_channel_data", "fetch_channel_stats", "find_competitors",
     "fetch_competitor_videos", "analyze"}

\* ---------------------------------------------------------------- claims

\* C1: a run started with a selection index on a record whose cached
\* AnalysisResult is non-null calls none of item collection, channel
\* summary, comparison discovery, comparison-item fetch and analysis, and the
\* AnalysisResult it works with is the cached one.
C1_FastTrackSkipsCollection ==
    \A r \in Slots :
        FastTrackCase(r) =>
            /\ Stages(r) \cap CollectionStages = {}
            /\ run[r].analysis_results = run[r].cached_at_begin

\* a fast-track run has gone all the way to Completed
C1_Witness ==
    \E r \in Slots :
        FastTrackCase(r) /\ Ended(r) /\ run[r].end_phase = "Completed"
                         /\ run[r].results_video_path # None

\* C2: at most one run launched by the app is queued or in progress at any
\* time (a request arriving during a run is rejected).
C2_MutualExclusion ==
    Cardinality({r \in Slots : run[r].via = "app" /\ InProgress(r)}) <= 1

\* C3: a full-path run whose item collection returns nothing, whatever the
\* other collaborators return, ends in Failed with an explicit reason, and
\* neither discovery nor analysis is called nor an AnalysisResult built.
C3_NoDataFails ==
    \A r \in Slots :
        (Ended(r) /\ run[r].channel_videos = "nothing" /\ run[r].raised = "") =>
            /\ run[r].end_phase = "Failed"
            /\ run[r].end_details = D("No videos found for this channel.")
            /\ Stages(r) \cap {"find_competitors", "fetch_competitor_videos", "analyze"} = {}
            /\ run[r].analysis_results = None

\* C4 as claimed: after a run without a selection whose stages all succeed
\* the phase is Waiting, the recommendation list is non-empty, no script was
\* requested, the renderer was not invoked, and the script and the artifact
\* path/URL are null in the results and in the record, whatever the record
\* held before.
C4_NoSelectionClearsArtifact ==
    \A r \in Slots :
        (AllStagesSucceeded(r) /\ ~HasSelection(r)) =>
            /\ pipeline_state.status = "Waiting"
            /\ pipeline_state.recommendations.len > 0
            /\ Stages(r) \cap {"generate_script", "_save_script", "format", "generate"} = {}
            /\ run[r].results_script = "None"
            /\ run[r].results_video_path = None
            /\ pipeline_state.video_path = None
            /\ pipeline_state.video_url = None

\* C4 amended: as claimed for the phase, the recommendations, the script and
\* the renderer and the results; the record's artifact path and URL are left
\* as they were when run began (null after the worker's reset).
C4_NoSelectionPath ==
    \A r \in Slots :
        (AllStagesSucceeded(r) /\ ~HasSelection(r)) =>
            /\ pipeline_state.status = "Waiting"
            /\ run[r].end_phase = "Waiting"
            /\ pipeline_state.recommendations.len > 0
            /\ pipeline_state.recommendations = heap[run[r].llm_recommender].recommendation
            /\ Stages(r) \cap {"generate_script", "_save_script", "format", "generate"} = {}
            /\ run[r].results_script = "None"
            /\ run[r].results_video_path = None
            /\ pipeline_state.video_path = run[r].path_at_begin
            /\ pipeline_state.video_url = run[r].url_at_begin
            /\ (run[r].via = "app" =>
                   pipeline_state.video_path = None /\ pipeline_state.video_url = None)

\* a direct call without a selection has ended in Waiting on a record that
\* still holds the artifact path of an earlier run
C4_Witness ==
    \E r \in Slots :
        /\ AllStagesSucceeded(r) /\ ~HasSelection(r)
        /\ run[r].end_phase = "Waiting"
        /\ run[r].path_at_begin # None

\* C5: with an AnalysisResult available, the oracle is asked for
\* recommendations iff none are cached for it: never on the fast track, and
\* always, before the script, in a run with a selection index that had to
\* build its AnalysisResult.
C5_OracleIffNotCached ==
    \A r \in Slots :
        /\ FastTrackCase(r) => "generate_recommendation" \notin Stages(r)
        /\ (FullPath(r) /\ HasSelection(r) /\ run[r].analysis_results # None) =>
               \/ run[r].pc = "generate_recommendation"
               \/ "generate_recommendation" \in Stages(r)

\* C6: with one run at a time, a fast-track run that finds the
\* recommendations saved never persists them again, no recommendation set is
\* persisted twice, and the set the record marks as saved was persisted once.
C6_PersistedOnce ==
    /\ \A r \in Slots :
          (FastTrackCase(r) /\ run[r].saved_at_begin = "True") =>
              "_save_recommendation" \notin Stages(r)
    /\ \A k \in Ids : persisted[k] <= 1
    /\ (Saved(pipeline_state) /\ pipeline_state.recommendations.obj # None) =>
           persisted[pipeline_state.recommendations.obj] = 1

\* the third run is the second of two consecutive fast-track runs on the set
\* the first run generated and persisted
C6_Witness ==
    \E r \in Slots :
        /\ run[r].id = 3 /\ FastTrackCase(r) /\ run[r].end_phase = "Completed"
        /\ run[r].llm_recommender = 1 /\ run[r].cached_at_begin = 1
        /\ run[r].before.video_path = 2
        /\ persisted[1] = 1

\* C7: a run with a selection index and artifact generation enabled whose
\* stages all succeed asks for one script, for the selected recommendation,
\* persists it, invokes the renderer once, records the artifact path and
\* ends in Completed, whatever script the oracle returns.
C7_SelectionRenders ==
    \A r \in Slots :
        (AllStagesSucceeded(r) /\ HasSelection(r) /\ run[r].generate_video) =>
            /\ Count(r, "generate_script") = 1
            /\ run[r].script_for = <<run[r].llm_recommender, run[r].selected_index>>
            /\ Count(r, "_save_script") = 1
            /\ Count(r, "generate") = 1
            /\ run[r].results_video_path # None
            /\ run[r].end_phase = "Completed"

\* C8 as claimed: a run with a selection index and artifact generation
\* disabled whose stages all succeed never invokes the renderer, ends in
\* Completed, and the artifact path is null in the results and in the
\* record, whatever the record held before.
C8_DisabledClearsArtifact ==
    \A r \in Slots :
        (AllStagesSucceeded(r) /\ HasSelection(r) /\ ~run[r].generate_video) =>
            /\ "generate" \notin Stages(r)
            /\ run[r].end_phase = "Completed"
            /\ run[r].results_video_path = None
            /\ pipeline_state.video_path = None

\* C8 amended: the renderer is never invoked, the run ends in Completed with
\* a null artifact path in its results, and the record's artifact path is
\* left as it was when run began.
C8_DisabledSkipsRenderer ==
    \A r \in Slots :
        (AllStagesSucceeded(r) /\ HasSelection(r) /\ ~run[r].generate_video) =>
            /\ "generate" \notin Stages(r)
            /\ run[r].end_phase = "Completed"
            /\ pipeline_state.status = "Completed"
            /\ run[r].returned = "results"
            /\ run[r].results_video_path = None
            /\ pipeline_state.video_path = run[r].path_at_begin

\* such a run has completed on a record that holds an earlier run's artifact
C8_Witness ==
    \E r \in Slots :
        /\ AllStagesSucceeded(r) /\ HasSelection(r) /\ ~run[r].generate_video
        /\ run[r].end_phase = "Completed"
        /\ run[r].results_script = "full"
        /\ pipeline_state.video_path # None

\* no stage is called twice in a run
NoStageTwice(r) ==
    \A i, j \in DOMAIN run[r].calls : run[r].calls[i] = run[r].calls[j] => i = j

\* C9: when a stage raises, the run ends in Error with the failure message
\* in the details, the stage that raised is the last one called, and no
\* stage of a run is called twice.
C9_RaiseEndsInError ==
    \A r \in Slots :
        /\ NoStageTwice(r)
        /\ run[r].raised # "" =>
              /\ Ended(r)
              /\ run[r].end_phase = "Error"
              /\ run[r].end_details = [text |-> "Pipeline failed: ", msg |-> run[r].raised]
              /\ run[r].calls[Len(run[r].calls)] = run[r].raised

\* the renderer, the last stage, has raised
C9_Witness ==
    \E r \in Slots : run[r].raised = "generate" /\ Len(run[r].calls) >= 5

RatedFrames ==
    IF analyzer.fn \in {"fetched", "ensured", "best_video", "worst_video", "top_videos"}
    THEN {analyzer.df}
    ELSE IF analyzer.fn \in {"comparing", "compared"}
         THEN {analyzer.comparisons[c].comp_df : c \in DOMAIN analyzer.comparisons}
         ELSE {}

\* C11: every item, of the channel or of a comparison channel, with
\* non-negative integer counts (views = 0 included) has the stored engagement
\* rate (likes + comments) / max(views, 1), which is >= 0.
C11_EngagementRate ==
    \A df \in RatedFrames : \A i \in 1..Len(df.rows) :
        LET v == df.rows[i]
        IN  /\ v.engagement_rate.num = v.likes + v.comments_count
            /\ v.engagement_rate.den = (IF v.views > 1 THEN v.views ELSE 1)
            /\ v.engagement_rate.num >= 0 /\ v.engagement_rate.den > 0

\* the analyzer has filled the rate of an item without views that has a
\* like and a comment
C11_Witness ==
    /\ analyzer.fn = "ensured"
    /\ \E i \in 1..Len(analyzer.df.rows) :
          /\ analyzer.df.rows[i].views = 0
          /\ analyzer.df.rows[i].engagement_rate = Frac(2, 1)

\* the calls of _get_best_performing_video that have returned a row: the
\* frame scored and the dict returned, for the channel and for every
\* comparison channel reported so far
BestResults ==
    IF analyzer.fn = "best_video" /\ analyzer.out.kind = "video"
    THEN {[df |-> analyzer.df, out |-> analyzer.out]}
    ELSE IF analyzer.fn \in {"comparing", "compared"}
         THEN {[df |-> analyzer.comparisons[c].comp_df,
                out |-> analyzer.comparisons[c].best_video] :
                  c \in DOMAIN analyzer.comparisons}
         ELSE {}

\* row i exceeds every other row in views, in likes and in comments
Dominates(df, i) ==
    \A j \in 1..Len(df.rows) : j # i =>
        /\ df.rows[i].views > df.rows[j].views
        /\ df.rows[i].likes > df.rows[j].likes
        /\ df.rows[i].comments_count > df.rows[j].comments_count

\* C12: for a non-empty item set with non-negative counts every item's
\* composite score is 0.4*views/maxViews + 0.3*likes/maxLikes +
\* 0.3*comments/maxComments (a max of 0 replaced by 1) and lies in [0, 1],
\* and an item that strictly exceeds every other item in views, likes and
\* comments is the best item.
C12_ScoreRangeAndDominance ==
    \A b \in BestResults :
        LET rows == b.df.rows
            n == Len(rows)
            top(column) == IF \A i \in 1..n : rows[i][column] = 0 THEN 1
                           ELSE CHOOSE m \in {rows[i][column] : i \in 1..n} :
                                    \A i \in 1..n : rows[i][column] <= m
            vm == top("views")
            lm == top("likes")
            cm == top("comments_count")
        IN  /\ \A i \in 1..n :
                  LET s == rows[i].performance_score
                  IN  /\ s.den > 0
                      /\ s.num * (10 * vm * lm * cm) =
                             s.den * (4 * rows[i].views * lm * cm
                                        + 3 * rows[i].likes * vm * cm
                                        + 3 * rows[i].comments_count * vm * lm)
                      /\ ~ScoreLess(s, Score(0, 1, 0))
                      /\ ~ScoreLess(Score(1, 1, 0), s)
            /\ \A i \in 1..n : Dominates(b.df, i) => b.out.idx = i

\* the last of three items exceeds the other two in views, likes and
\* comments and is returned as the best item of the channel
C12_Witness ==
    /\ analyzer.fn = "best_video" /\ analyzer.out.kind = "video"
    /\ Len(analyzer.df.rows) = 3
    /\ Dominates(analyzer.df, 3)
    /\ analyzer.df.rows[1].views = 1
    /\ analyzer.out.idx = 3

MinRateIn(df, P, i) ==
    /\ i \in P
    /\ \A j \in P : ~FracLess(df.rows[j].engagement_rate, df.rows[i].engagement_rate)

\* C14: for a non-empty item set, with P the items whose views are strictly
\* above the 10th percentile of the views, the worst item is the item of
\* least engagement rate of P when P is non-empty (so no item at or below
\* the percentile is chosen) and of all items otherwise, also when the 10th
\* percentile is 0.
C14_WorstAboveTenthPercentile ==
    (analyzer.fn = "worst_video" /\ Len(analyzer.df.rows) > 0) =>
        LET df == analyzer.df
            P == ViewsAbove(df, Quantile10(Column(df, "views")))
        IN  /\ analyzer.out.kind = "video"
            /\ IF P # {} THEN MinRateIn(df, P, analyzer.out.idx)
               ELSE MinRateIn(df, 1..Len(df.rows), analyzer.out.idx)

\* the records returned are distinct items of the frame, min(top_n, total)
\* of them, and no item left out has a rate above a returned one
TopRecordsOf(df, top_n, records) ==
    LET n == Len(df.rows)
        returned == {records[k].idx : k \in 1..Len(records)}
    IN  /\ Len(records) = (IF top_n < n THEN top_n ELSE n)
        /\ \A k \in 1..Len(records) :
              /\ records[k].idx \in 1..n
              /\ records[k].engagement_rate = df.rows[records[k].idx].engagement_rate
        /\ \A k, l \in 1..Len(records) : records[k].idx = records[l].idx => k = l
        /\ \A i \in (1..n) \ returned : \A k \in 1..Len(records) :
              ~FracLess(records[k].engagement_rate, df.rows[i].engagement_rate)

\* C15 as claimed: for every item set and every n >= 0 the top items are
\* min(n, total) items of the input in strictly descending order of
\* engagement rate, each rate greater than the next one's.
C15_TopStrictlyDescending ==
    analyzer.fn = "top_videos" =>
        LET records == analyzer.out.records
        IN  /\ TopRecordsOf(analyzer.df, analyzer.out.top_n, records)
            /\ \A k \in 1..(Len(records) - 1) :
                  FracLess(records[k + 1].engagement_rate, records[k].engagement_rate)

\* C15 amended: the top items are min(n, total) items of the input in
\* descending order of engagement rate, no rate below the next one's; items
\* of equal rate follow each other in either order.
C15_TopDescending ==
    analyzer.fn = "top_videos" =>
        LET records == analyzer.out.records
        IN  /\ TopRecordsOf(analyzer.df, analyzer.out.top_n, records)
            /\ \A k \in 1..(Len(records) - 1) :
                  ~FracLess(records[k].engagement_rate, records[k + 1].engagement_rate)

\* the top two of three items have the same rate, above the third item's
C15_Witness ==
    /\ analyzer.fn = "top_videos" /\ analyzer.out.top_n = 2
    /\ Len(analyzer.df.rows) = 3 /\ Len(analyzer.out.records) = 2
    /\ LET records == analyzer.out.records
       IN  /\ FracEq(records[1].engagement_rate, records[2].engagement_rate)
           /\ \E i \in 1..3 : FracLess(analyzer.df.rows[i].engagement_rate,
                                       records[2].engagement_rate)

\* the best item of the three example items has been computed
ExampleScored ==
    /\ analyzer.fn = "best_video"
    /\ analyzer.videos = ExampleVideos
\* the engagement rates of the example are 0.12, 0.12 and 0.10
ExampleRates ==
    /\ FracEq(analyzer.df.rows[1].engagement_rate, Frac(12, 100))
    /\ FracEq(analyzer.df.rows[2].engagement_rate, Frac(12, 100))
    /\ FracEq(analyzer.df.rows[3].engagement_rate, Frac(10, 100))

\* C19 as claimed: for views=[100,50,10], likes=[10,5,1], comments=[2,1,0]
\* the engagement rates are [0.12, 0.12, 0.10], the composite score of item
\* 0 ties with that of item 1, and the best item is item 0 by the
\* first-encountered rule.
C19_ExampleTie ==
    ExampleScored =>
        LET s == Column(analyzer.df, "performance_score")
        IN  /\ ExampleRates
            /\ ~ScoreLess(s[1], s[2]) /\ ~ScoreLess(s[2], s[1])
            /\ analyzer.out.kind = "video" /\ analyzer.out.idx = 1

\* C19 amended: the engagement rates are [0.12, 0.12, 0.10] and the
\* composite scores are 1.0, 0.5 and 0.07; item 0 (the first row) alone has
\* the maximum score and is the best item, no tie being involved.
C19_ExampleBest ==
    ExampleScored =>
        LET s == Column(analyzer.df, "performance_score")
        IN  /\ ExampleRates
            /\ s[1].num = s[1].den /\ s[1].ulp = 0
            /\ 2 * s[2].num = s[2].den
            /\ 100 * s[3].num = 7 * s[3].den
            /\ ScoreLess(s[2], s[1]) /\ ScoreLess(s[3], s[2])
            /\ analyzer.out.kind = "video" /\ analyzer.out.idx = 1
            /\ analyzer.out.views = 100 /\ analyzer.out.likes = 10

\* the best item of the example has been computed
C19_Witness ==
    /\ ExampleScored
    /\ analyzer.out.kind = "video"
    /\ analyzer.out.performance_score = Score(20000, 20000, 0)

\* the structured duration strings: PT followed by an hour, a minute and a
\* second component, each present or not, and the seconds they stand for
Structured(chars) ==
    {<<h, m, s>> \in ({<<>>} \cup Component("H")) \X ({<<>>} \cup Component("M"))
                       \X ({<<>>} \cup Component("S")) :
        chars = <<"P", "T">> \o h \o m \o s}
ComponentValue(c) == IF c = <<>> THEN 0 ELSE IntOf(c, 1, Len(c) - 1)

\* C16: a structured duration string with any subset of hour, minute and
\* second components converts to hours*3600 + minutes*60 + seconds, and
\* every other string (one that only starts with PT, the empty string) and
\* every value that is not a string yields 300.
C16_DurationOrDefault ==
    analyzer.fn = "duration_seconds" =>
        IF analyzer.duration.type = "str" /\ Structured(analyzer.duration.chars) # {}
        THEN \A c \in Structured(analyzer.duration.chars) :
                analyzer.seconds = ComponentValue(c[1]) * 3600
                                     + ComponentValue(c[2]) * 60 + ComponentValue(c[3])
        ELSE analyzer.seconds = 300

\* the exact mean of the engagement rates of a group equals the mean kept
\* in the dict
IsGroupMean(rows, by, key, mean) ==
    LET group == Group(rows, by, key)
        exact == RateMean([rows |-> group], 0)
    IN  /\ Len(group) > 0
        /\ mean.num * exact.den = exact.num * mean.den
\* best is a key of the dict with the largest mean and every key before it
\* in the key order has a smaller mean
IsFirstArgMax(best, performance, sorted) ==
    /\ best # Null
    /\ best.key \in DOMAIN performance
    /\ \A key \in DOMAIN performance : ~ScoreLess(performance[best.key], performance[key])
    /\ \A i, j \in DOMAIN sorted :
          (sorted[j] = best.key /\ i < j /\ sorted[i] \in DOMAIN performance)
              => ScoreLess(performance[sorted[i]], performance[best.key])

C18_ClusteringDegrades ==
    analyzer.fn = "content" =>
        /\ Len(analyzer.df.rows) < 3 =>
              /\ DOMAIN analyzer.out.topics = {}
              /\ ~analyzer.out.raised
              /\ ~analyzer.out.attempted
        /\ (Len(analyzer.df.rows) >= 3 /\ analyzer.clustering.kind = "error") =>
              /\ DOMAIN analyzer.out.topics = {}
              /\ ~analyzer.out.raised

\* two titled items: one short of the threshold
C18_Witness ==
    /\ analyzer.fn = "content"
    /\ Len(analyzer.df.rows) = 2
    /\ analyzer.df.columns = ContentColumns
    /\ DOMAIN analyzer.out.topics = {}
    /\ ~analyzer.out.attempted
    /\ analyzer.out.avg_title_length = Frac(6, 2)

\* run is executing the steps of AutonomousPipeline.run
Executing(r) == run[r].pc \notin {"idle", "queued", "done"} /\ ~Ended(r)

\* C20: whenever the phase of the record is Waiting, under every
\* interleaving of start requests, selection requests and run steps, the
\* recommendation list is non-empty, the cached AnalysisResult is present,
\* and no run is still executing steps.
C20_WaitingIsQuiescent ==
    pipeline_state.status = "Waiting" =>
        /\ pipeline_state.recommendations.kind = "list"
        /\ pipeline_state.recommendations.len > 0
        /\ pipeline_state.analysis_results # None
        /\ \A r \in Slots : ~Executing(r)


\* C21: a freshly generated recommendation set is persisted exactly once
\* even when a selection request is issued as soon as the phase Waiting is
\* observed: whatever the interleaving of the generating run's remaining
\* steps with the steps of a fast-track run requested in phase Waiting, the
\* set that run works with is never written twice.
C21_PersistedOnceUnderRace ==
    \A r \in Slots :
        (FastTrackCase(r) /\ run[r].before.status = "Waiting"
                          /\ run[r].llm_recommender # None) =>
            persisted[run[r].llm_recommender] <= 1

\* C22: a channel summary that is not available is not fatal: a full-path
\* run whose item collection returned rows and whose channel summary
\* returned none fills the summary with defaults and goes on to comparison
\* discovery; it does not end in Error there.
C22_MissingSummaryContinues ==
    \A r \in Slots :
        (FullPath(r) /\ run[r].channel_videos = "rows" /\ run[r].channel_info = "None") =>
            /\ run[r].pc = "find_competitors" \/ "find_competitors" \in Stages(r)
            /\ ~(Ended(r) /\ run[r].end_phase = "Error" /\ run[r].raised = "")

\* the phase a run ends with is one of Waiting, Completed, Failed and
\* Error; Waiting only without a selection index, Completed only with one,
\* Failed only on the full path
FinalPhases ==
    \A r \in Slots :
        Ended(r) =>
            /\ run[r].end_phase \in {"Waiting", "Completed", "Failed", "Error"}
            /\ run[r].end_phase = "Waiting" => ~HasSelection(r)
            /\ run[r].end_phase = "Completed" => HasSelection(r)
            /\ run[r].end_phase = "Failed" => FullPath(r)

\* C23: every run whose collaborator calls each return or raise terminates,
\* and the phase it ends with is one of Waiting, Completed, Failed and
\* Error: Waiting only for runs without a selection index, Completed only
\* for runs with one, Failed only for full-path runs, and never Running or
\* GeneratingVideo.
C23_TerminatesInFinalPhase ==
    /\ []FinalPhases
    /\ \A r \in Slots : (run[r].pc # "idle") ~> Ended(r)

\* a run with a selection that took the full path has ended in Completed
\* without rendering
C23_Witness ==
    \E r \in Slots :
        /\ Ended(r) /\ FullPath(r) /\ HasSelection(r) /\ run[r].end_phase = "Completed"
        /\ "format" \in Stages(r) /\ "generate" \notin Stages(r)

\* the fixed order of the stages of run
StageOrder ==
    <<"fetch_channel_data", "fetch_channel_stats", "find_competitors",
      "fetch_competitor_videos", "analyze", "generate_recommendation",
      "_save_recommendation", "generate_script", "_save_script", "format", "generate">>
\* the stages a run leaves out: the collection on the fast track, the oracle
\* for recommendations with a selection, the script and what follows it
\* without one, and the persistence when the guard found the set saved
SkippedStages(r) ==
    (IF FastTrackCase(r) THEN CollectionStages ELSE {})
      \cup (IF HasSelection(r) THEN {"generate_recommendation"}
            ELSE {"generate_script", "_save_script", "format", "generate"})
      \cup (IF "_save_recommendation" \notin Stages(r)
            THEN {"_save_recommendation"} ELSE {})
ExpectedStages(r) == SelectSeq(StageOrder, LAMBDA stage : stage \notin SkippedStages(r))
IsPrefix(a, b) == Len(a) <= Len(b) /\ a = SubSeq(b, 1, Len(a))

C26_OneEntryPerChannelWithItems ==
    analyzer.fn = "compared" =>
        LET channels == analyzer.competitor_videos
            report == analyzer.comparisons
        IN  /\ DOMAIN report = {c \in DOMAIN channels : Len(channels[c]) > 0}
            /\ \A c \in DOMAIN report :
                  /\ report[c].video_count = Len(channels[c])
                  /\ report[c].avg_views.den # 0
                  /\ report[c].avg_views.num * Len(channels[c])
                        = report[c].avg_views.den
                            * SeqSum([i \in DOMAIN channels[c] |-> channels[c][i].views])
            /\ Len(channels) = 0 => DOMAIN report = {}

\* two channels: the first without items, the second with two items of
\* different views
C26_Witness ==
    /\ analyzer.fn = "compared"
    /\ Len(analyzer.competitor_videos) = 2
    /\ Len(analyzer.competitor_videos[1]) = 0
    /\ DOMAIN analyzer.comparisons = {2}
    /\ analyzer.comparisons[2].video_count = 2
    /\ analyzer.comparisons[2].avg_views = Frac(3, 2)

\* the recommendations of one kind
OfKind(recommendations, kind) ==
    SelectSeq(recommendations, LAMBDA rec : rec.kind = kind)

\* C25: the recommendations include a timing suggestion naming the best day
\* and the best hour whenever the temporal profile has a non-null best day
\* and a non-null best hour, whatever the hour; they include one 'create
\* more content' suggestion for each topic cluster with more than 2 members
\* and none for a cluster with 2 or fewer.
C25_TimingAndClusterSuggestions ==
    analyzer.fn = "advised" =>
        LET temporal == analyzer.temporal_analysis
            topics == analyzer.content_analysis.topics
            timing == OfKind(analyzer.recommendations, "Publish on")
            similar == OfKind(analyzer.recommendations, "Create more content similar to")
        IN  /\ (temporal.best_day # Null /\ temporal.best_hour # Null) =>
                   timing = <<[kind |-> "Publish on", day |-> temporal.best_day.key,
                               hour |-> temporal.best_hour.key]>>
            /\ \A c \in DOMAIN topics :
                  Cardinality({i \in DOMAIN similar : similar[i].topic = c})
                      = IF topics[c].count > 2 THEN 1 ELSE 0

\* C27: every script of a fast-track run is generated from an entry of a
\* recommendation list that the oracle produced from the AnalysisResult
\* cached in the record at that moment; no script is generated from the
\* recommendations of an earlier, invalidated analysis.
C27_ScriptFromCachedAnalysis ==
    \A r \in Slots :
        (FastTrackCase(r) /\ "generate_script" \in Stages(r)) =>
            /\ run[r].cached_at_script # None
            /\ heap[run[r].script_for[1]].analysis = run[r].cached_at_script

\* a fast-track run whose selection index is outside the recommendation
\* list cached when it was requested
OutOfRange(r) ==
    /\ FastTrackCase(r)
    /\ run[r].before.recommendations.kind = "list"
    /\ run[r].selected_index >= run[r].before.recommendations.len

\* C28: a fast-track run whose selection index is greater than or equal to
\* the number of cached recommendations ends in Error without invoking the
\* script oracle, the formatter or the renderer, and leaves the cached
\* AnalysisResult, the cached recommendation list and the persisted-flag as
\* they were.
C28_OutOfRangeSelection ==
    \A r \in Slots :
        (OutOfRange(r) /\ Ended(r)) =>
            /\ run[r].end_phase = "Error"
            /\ Stages(r) \cap {"generate_script", "format", "generate"} = {}
            /\ pipeline_state.analysis_results = run[r].before.analysis_results
            /\ pipeline_state.recommendations = run[r].before.recommendations
            /\ pipeline_state.recommendations_saved = run[r].before.recommendations_saved

\* a fast-track run whose selection index is outside the list held by the
\* recommender object it took from the record: generate_script indexes that
\* list, which is the cached list unless a start request has emptied the
\* cached list since
OutOfRangeOfObject(r) ==
    /\ FastTrackCase(r)
    /\ run[r].llm_recommender # None
    /\ heap[run[r].llm_recommender].recommendation.kind = "list"
    /\ run[r].selected_index >= heap[run[r].llm_recommender].recommendation.len

\* C28 (amended): a fast-track run whose selection index is greater than or
\* equal to the number of recommendations held by the cached recommender
\* object ends in Error without invoking the script oracle, the formatter or
\* the renderer, and leaves the cached AnalysisResult and the cached
\* recommendation list as they were; the persisted-flag stays as it was when
\* it was already set, and otherwise changes only to True, by the run's own
\* _save_recommendation
C28_OutOfRangeEndsInError ==
    \A r \in Slots :
        (OutOfRangeOfObject(r) /\ Ended(r)) =>
            /\ run[r].end_phase = "Error"
            /\ Stages(r) \cap {"generate_script", "format", "generate"} = {}
            /\ pipeline_state.analysis_results = run[r].before.analysis_results
            /\ pipeline_state.recommendations = run[r].before.recommendations
            /\ \/ pipeline_state.recommendations_saved
                      = run[r].before.recommendations_saved
               \/ /\ run[r].before.recommendations_saved # "True"
                  /\ pipeline_state.recommendations_saved = "True"
                  /\ "_save_recommendation" \in Stages(r)

\* an out-of-range fast-track run has ended on the IndexError after it
\* persisted recommendations that were not yet persisted
C28_Witness ==
    \E r \in Slots :
        /\ OutOfRange(r) /\ OutOfRangeOfObject(r) /\ Ended(r)
        /\ run[r].end_details.msg = "IndexError"
        /\ run[r].before.recommendations_saved # "True"
        /\ pipeline_state.recommendations_saved = "True"

\* an out-of-range fast-track run has ended on the IndexError with the
\* persisted-flag already set when it was requested
C28_WitnessSaved ==
    \E r \in Slots :
        /\ OutOfRange(r) /\ OutOfRangeOfObject(r) /\ Ended(r)
        /\ run[r].end_details.msg = "IndexError"
        /\ run[r].before.recommendations_saved = "True"

\* main: exit status 0 when run returned a truthy result, 1 otherwise
ExitStatus(r) == IF run[r].returned = "results" THEN 0 ELSE 1

\* a call of run as main makes it: synchronous, without a selection index
MainCase(r) == run[r].via = "direct" /\ run[r].selected_index = NoIndex

\* C29: run returns a non-null result if and only if its final phase is
\* Completed; a run that ends in Waiting, Failed or Error returns null, so a
\* call without a selection index, as the command-line entry point makes
\* it, leads to exit status 1 after every run, including one that reached
\* Waiting with recommendations ready.
C29_ResultIffCompleted ==
    \A r \in Slots :
        Ended(r) =>
            /\ (run[r].returned = "results") <=> (run[r].end_phase = "Completed")
            /\ run[r].end_phase \in {"Waiting", "Failed", "Error"}
                  => run[r].returned = "None"
            /\ MainCase(r) => ExitStatus(r) = 1

\* a call without a selection index has ended in Waiting with the
\* recommendations ready and persisted, and the exit status is 1
C29_Witness ==
    \E r \in Slots :
        /\ MainCase(r) /\ Ended(r)
        /\ run[r].end_phase = "Waiting"
        /\ run[r].recommendations.kind = "list"
        /\ "_save_recommendation" \in Stages(r)
        /\ ExitStatus(r) = 1

\* a run with a selection has ended in Completed and returned its results
C29_WitnessCompleted ==
    \E r \in Slots :
        Ended(r) /\ run[r].end_phase = "Completed" /\ run[r].returned = "results"

\* run r returns in this step
Ends(r) == ~Ended(r) /\ Ended(r)'

\* a step and last_run: a run that returns in phase Waiting, without a
\* selection and without an exception, has written its time; a run that
\* returns in any other phase, and every step in which no run returns, has
\* left last_run as it was
LastRunStep ==
    /\ \A r \in Slots :
          Ends(r) =>
              IF run'[r].end_phase = "Waiting"
              THEN /\ pipeline_state'.last_run = run'[r].id
                   /\ run'[r].selected_index = NoIndex
                   /\ run'[r].raised = ""
              ELSE pipeline_state'.last_run = pipeline_state.last_run
    /\ (\A r \in Slots : ~Ends(r))
          => pipeline_state'.last_run = pipeline_state.last_run

\* last_run is the initial value or the time of a run that was made, and it
\* is the initial value only while no run that ended in Waiting is on record
LastRunValue ==
    /\ pipeline_state.last_run \in {None} \cup (1..launched)
    /\ \A r \in Slots :
          (Ended(r) /\ run[r].end_phase = "Waiting")
              => pipeline_state.last_run # None

\* C30: last_run is written only by a run that ends in Waiting: a run that
\* ends in Completed, Failed or Error leaves it as it was, and so does every
\* other step; hence last_run is always the time of the latest no-selection
\* run that succeeded, or the initial value.
C30_LastRunOnlyOnWaiting == [][LastRunStep]_vars /\ []LastRunValue

\* a run has ended in Completed after an earlier run ended in Waiting, and
\* last_run is still the time of that earlier run
C30_Witness ==
    \E r \in Slots :
        /\ Ended(r) /\ run[r].end_phase = "Completed"
        /\ run[r].before.last_run # None
        /\ pipeline_state.last_run = run[r].before.last_run
        /\ pipeline_state.last_run # run[r].id

\* a run has ended in Error after an earlier run ended in Waiting, and
\* last_run is still the time of that earlier run
C30_WitnessError ==
    \E r \in Slots :
        /\ Ended(r) /\ run[r].end_phase = "Error"
        /\ run[r].before.last_run # None
        /\ pipeline_state.last_run = run[r].before.last_run

====
